---------------------------- MODULE Spec2Model ----------------------------
(***************************************************************************)
(* A model of src/deep_research.py: the reply extraction _extract_json     *)
(* (the two regular expressions, json.loads and the fallback record) and   *)
(* the six-stage pipeline of DeepResearchAgent.conduct_research.           *)
(*                                                                         *)
(* Text.  A Python str is a sequence of characters, each a one-character   *)
(* TLA+ string.  A str built by the code from a literal or an f-string     *)
(* keeps each literal part as one element of the sequence.  Replies of the *)
(* model service are always sequences of single characters, so that        *)
(* len(text) is Len(text) and text[:n] is SubSeq(text, 1, n).              *)
(*                                                                         *)
(* Values.  A Python value that comes out of json.loads is a tagged        *)
(* record: [t |-> "null"], [t |-> "bool", b |-> truth value],             *)
(* [t |-> "num", n |-> integer], [t |-> "str", s |-> characters],          *)
(* [t |-> "list", l |-> sequence] and [t |-> "dict", d |-> function from   *)
(* keys (character sequences)].  Each kind has a field of its own, so that *)
(* two values of different kinds are unequal whatever they hold.           *)
(*                                                                         *)
(* Characters.  The replies of the model are drawn from Char below; the    *)
(* JSON grammar is modelled for these characters (no backslash escapes,    *)
(* no sign, fraction or exponent in numbers, no NaN or Infinity).          *)
(***************************************************************************)
EXTENDS Integers, Sequences, FiniteSets, TLC

VARIABLES
    text,       \* harness: the reply handed to _extract_json
    origin,     \* harness: how the reply was put together
    result,     \* harness: what _extract_json did with it (NotCalled before)
    extractions,\* harness: the calls of _extract_json made on the reply
    pc,                 \* where the program is: "idle", a step of conduct_research,
                        \* "returned", "raised", and main's ends "saved", "failed"
    query,              \* the query of the invocation
    time_limit,         \* the time_limit of the invocation (None when not given)
    start_time,         \* conduct_research's local start_time, in clock seconds
    invocations,        \* history: the invocations of conduct_research on this agent
    search_api_key,     \* self.search_api_key
    clock,              \* int(time.time())
    research_topic,     \* conduct_research's local research_topic
    retrieved_docs,     \* conduct_research's local retrieved_docs
    xi,                 \* the document the loop of _extract_information is at
    extracted,          \* the local list findings of _extract_information, then of conduct_research
    synthesis,          \* conduct_research's local synthesis
    enhanced_synthesis, \* conduct_research's local enhanced_synthesis
    final_output,       \* the report conduct_research returns
    documents,          \* self.documents
    findings,           \* self.findings
    research_plans,     \* self.research_plans
    syntheses,          \* self.syntheses
    faults,             \* service outcomes other than the answer asked for, so far
    trace,              \* history: the steps started, in order
    calls,              \* history: service calls made by each step
    path,               \* history: how each step ended
    got,                \* history: what each step last got from _extract_json
    svcFailed,          \* history: the last service call of the step raised
    printed             \* history: the "Error ..." lines printed

---------------------------------------------------------------------------
(* Characters and small helpers *)

Quote == "\""

\* the grave accent U+0060 (the character itself cannot be written in a TLA+ string)
BackTick == "BACKTICK"

Digits == {"0", "1", "2", "3", "4", "5", "6", "7", "8", "9"}

\* \s of Python's re for the characters of the model
ReSpace == {" ", "\t", "\n", "\r", "\f"}

Char == {"a", "b", "c", "d", "e", "f", "g", "h", "i", "j", "k", "l", "m",
         "n", "o", "p", "q", "r", "s", "t", "u", "v", "w", "x", "y", "z", "_"}
            \cup Digits \cup ReSpace
            \cup {Quote, BackTick, "{", "}", "[", "]", ":", ","}

Min(S) == CHOOSE x \in S : \A y \in S : x <= y

Max(S) == CHOOSE x \in S : \A y \in S : x >= y

\* s[i], or "" past the end
At(s, i) == IF i >= 1 /\ i <= Len(s) THEN s[i] ELSE ""

\* s[i:i+len(w)] == w
MatchAt(s, i, w) == /\ i + Len(w) - 1 <= Len(s)
                    /\ SubSeq(s, i, i + Len(w) - 1) = w

---------------------------------------------------------------------------
(* json.loads *)

Null == [t |-> "null"]

Bool(b) == [t |-> "bool", b |-> b]

Num(n) == [t |-> "num", n |-> n]

Str(s) == [t |-> "str", s |-> s]

List(s) == [t |-> "list", l |-> s]

Dict(f) == [t |-> "dict", d |-> f]

\* d[k] = x on a Python dict: a later duplicate key replaces the earlier one
DictPut(f, k, x) == [j \in (DOMAIN f) \cup {k} |-> IF j = k THEN x ELSE f[j]]

ParseFail == [ok |-> FALSE, val |-> Null, nxt |-> 0]

ParseOk(x, n) == [ok |-> TRUE, val |-> x, nxt |-> n]

DigitVal(c) ==
    CASE c = "0" -> 0 [] c = "1" -> 1 [] c = "2" -> 2 [] c = "3" -> 3
      [] c = "4" -> 4 [] c = "5" -> 5 [] c = "6" -> 6 [] c = "7" -> 7
      [] c = "8" -> 8 [] c = "9" -> 9

\* the first place from i on whose character is not in cs (past the end if none)
SkipChars(s, i, cs) ==
    LET stops == {k \in i..Len(s) : s[k] \notin cs}
    IN  IF stops = {} THEN (IF i > Len(s) THEN i ELSE Len(s) + 1) ELSE Min(stops)

\* WHITESPACE.match(s, i).end(), json.decoder.WHITESPACE being [ \t\n\r]*
SkipWs(s, i) == SkipChars(s, i, {" ", "\t", "\n", "\r"})

\* NUMBER_RE at i, s[i] a digit: (0|[1-9]\d*)
ParseNumber(s, i) ==
    IF s[i] = "0"
    THEN ParseOk(Num(0), i + 1)
    ELSE LET e == SkipChars(s, i, Digits)
             RECURSIVE DecimalValue(_, _)
             DecimalValue(k, acc) ==
                 IF k >= e THEN acc ELSE DecimalValue(k + 1, acc * 10 + DigitVal(s[k]))
         IN  ParseOk(Num(DecimalValue(i, 0)), e)

\* scanstring at the opening quote s[i]; strict, so a character below 0x20
\* inside the string is refused
ParseString(s, i) ==
    LET closing == {j \in (i + 1)..Len(s) : s[j] = Quote}
    IN  IF closing = {}
        THEN ParseFail
        ELSE LET j == Min(closing)
             IN  IF \E k \in (i + 1)..(j - 1) : s[k] \in {"\t", "\n", "\r", "\f"}
                 THEN ParseFail
                 ELSE ParseOk(Str(SubSeq(s, i + 1, j - 1)), j + 1)

RECURSIVE ParseValue(_, _)
RECURSIVE ParseMembers(_, _, _)
RECURSIVE ParseElements(_, _, _)

\* JSONObject after the first key's opening quote was found at k
ParseMembers(s, k, acc) ==
    LET key == ParseString(s, k)
    IN  IF ~key.ok
        THEN ParseFail
        ELSE LET c == SkipWs(s, key.nxt)
             IN  IF At(s, c) # ":"
                 THEN ParseFail
                 ELSE LET x == ParseValue(s, SkipWs(s, c + 1))
                      IN  IF ~x.ok
                          THEN ParseFail
                          ELSE LET e    == SkipWs(s, x.nxt)
                                   acc2 == DictPut(acc, key.val.s, x.val)
                               IN  CASE At(s, e) = "}" -> ParseOk(Dict(acc2), e + 1)
                                     [] At(s, e) = "," ->
                                          LET k2 == SkipWs(s, e + 1)
                                          IN  IF At(s, k2) = Quote
                                              THEN ParseMembers(s, k2, acc2)
                                              ELSE ParseFail
                                     [] OTHER -> ParseFail

\* JSONArray at the first element
ParseElements(s, k, acc) ==
    LET x == ParseValue(s, k)
    IN  IF ~x.ok
        THEN ParseFail
        ELSE LET e    == SkipWs(s, x.nxt)
                 acc2 == Append(acc, x.val)
             IN  CASE At(s, e) = "]" -> ParseOk(List(acc2), e + 1)
                   [] At(s, e) = "," -> ParseElements(s, SkipWs(s, e + 1), acc2)
                   [] OTHER -> ParseFail

\* scan_once(s, i)
ParseValue(s, i) ==
    LET c == At(s, i)
    IN  CASE c = Quote -> ParseString(s, i)
          [] c = "{" ->
               LET k == SkipWs(s, i + 1)
               IN  CASE At(s, k) = "}" -> ParseOk(Dict(<<>>), k + 1)
                     [] At(s, k) = Quote -> ParseMembers(s, k, <<>>)
                     [] OTHER -> ParseFail
          [] c = "[" ->
               LET k == SkipWs(s, i + 1)
               IN  IF At(s, k) = "]"
                   THEN ParseOk(List(<<>>), k + 1)
                   ELSE ParseElements(s, k, <<>>)
          [] c = "n" /\ MatchAt(s, i, <<"n", "u", "l", "l">>) -> ParseOk(Null, i + 4)
          [] c = "t" /\ MatchAt(s, i, <<"t", "r", "u", "e">>) -> ParseOk(Bool(TRUE), i + 4)
          [] c = "f" /\ MatchAt(s, i, <<"f", "a", "l", "s", "e">>) -> ParseOk(Bool(FALSE), i + 5)
          [] c \in Digits -> ParseNumber(s, i)
          [] OTHER -> ParseFail

\* json.loads(s): [exc |-> it raised JSONDecodeError, val |-> what it returned]
JsonLoads(s) ==
    LET x == ParseValue(s, SkipWs(s, 1))
    IN  IF x.ok /\ SkipWs(s, x.nxt) = Len(s) + 1
        THEN [exc |-> FALSE, val |-> x.val]
        ELSE [exc |-> TRUE, val |-> Null]

---------------------------------------------------------------------------
(* The two regular expressions of _extract_json *)

Fence == <<BackTick, BackTick, BackTick>>

JsonTag == <<"j", "s", "o", "n">>

\* the places where ``` starts
FencePositions(s) == {i \in 1..(Len(s) - 2) : MatchAt(s, i, Fence)}

NoMatch == [found |-> FALSE, group |-> <<>>]

\* re.search(r'```(?:json)?\s*([\s\S]*?)\s*```', s): the leftmost opening
\* marker, the optional tag, the greedy \s*, then the shortest group that
\* \s*``` can follow: q is the end of the greedy \s*, e the least place in
\* q..j with s[e..j-1] all \s, where the lazy group stops.
FenceSearch(s) ==
    LET opens == FencePositions(s)
    IN  IF opens = {}
        THEN NoMatch
        ELSE LET i == Min(opens)
                 p == IF MatchAt(s, i + 3, JsonTag) THEN i + 7 ELSE i + 3
                 q == SkipChars(s, p, ReSpace)
                 closes == {j \in opens : j >= q}
             IN  IF closes = {}
                 THEN NoMatch
                 ELSE LET j == Min(closes)
                          inner == {k \in q..(j - 1) : s[k] \notin ReSpace}
                          e == IF inner = {} THEN q ELSE Max(inner) + 1
                      IN  [found |-> TRUE, group |-> SubSeq(s, q, e - 1)]

\* BraceSearch with a lazy group: from the first { to the first } after it
BraceSearchLazy(s) ==
    LET opens == {i \in 1..Len(s) : s[i] = "{"}
    IN  IF opens = {}
        THEN NoMatch
        ELSE LET i == Min(opens)
                 closes == {j \in (i + 1)..Len(s) : s[j] = "}"}
             IN  IF closes = {}
                 THEN NoMatch
                 ELSE [found |-> TRUE, group |-> SubSeq(s, i, Min(closes))]

\* re.search(r'({[\s\S]*})', s): from the first { to the last } after it
BraceSearch(s) ==
    LET opens == {i \in 1..Len(s) : s[i] = "{"}
    IN  IF opens = {}
        THEN NoMatch
        ELSE LET i == Min(opens)
                 closes == {j \in (i + 1)..Len(s) : s[j] = "}"}
             IN  IF closes = {}
                 THEN NoMatch
                 ELSE [found |-> TRUE, group |-> SubSeq(s, i, Max(closes))]

---------------------------------------------------------------------------
(* _extract_json *)

\* the dict keys the code reads and writes, as the strings they are
Key ==
    [error |->
        <<"e", "r", "r", "o", "r">>,
     raw_text |->
        <<"r", "a", "w", "_", "t", "e", "x", "t">>,
     main_query |->
        <<"m", "a", "i", "n", "_", "q", "u", "e", "r", "y">>,
     subtopics |->
        <<"s", "u", "b", "t", "o", "p", "i", "c", "s">>,
     keywords |->
        <<"k", "e", "y", "w", "o", "r", "d", "s">>,
     scope |->
        <<"s", "c", "o", "p", "e">>,
     time_range |->
        <<"t", "i", "m", "e", "_", "r", "a", "n", "g", "e">>,
     domains |->
        <<"d", "o", "m", "a", "i", "n", "s">>,
     excluded_areas |->
        <<"e", "x", "c", "l", "u", "d", "e", "d", "_", "a", "r", "e", "a", "s">>,
     key_findings |->
        <<"k", "e", "y", "_", "f", "i", "n", "d", "i", "n", "g", "s">>,
     finding |->
        <<"f", "i", "n", "d", "i", "n", "g">>,
     evidence |->
        <<"e", "v", "i", "d", "e", "n", "c", "e">>,
     relevance |->
        <<"r", "e", "l", "e", "v", "a", "n", "c", "e">>,
     confidence |->
        <<"c", "o", "n", "f", "i", "d", "e", "n", "c", "e">>,
     title |->
        <<"t", "i", "t", "l", "e">>,
     executive_summary |->
        <<"e", "x", "e", "c", "u", "t", "i", "v", "e", "_", "s", "u", "m", "m", "a", "r", "y">>,
     synthesis_by_subtopic |->
        <<"s", "y", "n", "t", "h", "e", "s", "i", "s", "_", "b", "y", "_", "s", "u", "b", "t", "o", "p", "i", "c">>,
     subtopic |->
        <<"s", "u", "b", "t", "o", "p", "i", "c">>,
     synthesis |->
        <<"s", "y", "n", "t", "h", "e", "s", "i", "s">>,
     key_insights |->
        <<"k", "e", "y", "_", "i", "n", "s", "i", "g", "h", "t", "s">>,
     research_gaps |->
        <<"r", "e", "s", "e", "a", "r", "c", "h", "_", "g", "a", "p", "s">>,
     future_directions |->
        <<"f", "u", "t", "u", "r", "e", "_", "d", "i", "r", "e", "c", "t", "i", "o", "n", "s">>,
     enhanced_future_directions |->
        <<"e", "n", "h", "a", "n", "c", "e", "d", "_", "f", "u", "t", "u", "r", "e", "_", "d", "i", "r", "e", "c", "t", "i", "o", "n", "s">>,
     deeper_patterns |->
        <<"d", "e", "e", "p", "e", "r", "_", "p", "a", "t", "t", "e", "r", "n", "s">>,
     practical_applications |->
        <<"p", "r", "a", "c", "t", "i", "c", "a", "l", "_", "a", "p", "p", "l", "i", "c", "a", "t", "i", "o", "n", "s">>,
     introduction |->
        <<"i", "n", "t", "r", "o", "d", "u", "c", "t", "i", "o", "n">>,
     methodology |->
        <<"m", "e", "t", "h", "o", "d", "o", "l", "o", "g", "y">>,
     discussion |->
        <<"d", "i", "s", "c", "u", "s", "s", "i", "o", "n">>,
     conclusion |->
        <<"c", "o", "n", "c", "l", "u", "s", "i", "o", "n">>,
     bibliography |->
        <<"b", "i", "b", "l", "i", "o", "g", "r", "a", "p", "h", "y">>,
     metadata |->
        <<"m", "e", "t", "a", "d", "a", "t", "a">>,
     research_question |->
        <<"r", "e", "s", "e", "a", "r", "c", "h", "_", "q", "u", "e", "s", "t", "i", "o", "n">>,
     document_count |->
        <<"d", "o", "c", "u", "m", "e", "n", "t", "_", "c", "o", "u", "n", "t">>,
     finding_count |->
        <<"f", "i", "n", "d", "i", "n", "g", "_", "c", "o", "u", "n", "t">>,
     generation_date |->
        <<"g", "e", "n", "e", "r", "a", "t", "i", "o", "n", "_", "d", "a", "t", "e">>,
     research_id |->
        <<"r", "e", "s", "e", "a", "r", "c", "h", "_", "i", "d">>]

TruncLen == 500

\* RawText with the comparison off by one (>= for >)
RawTextOffByOne(s) ==
    IF Len(s) >= TruncLen THEN SubSeq(s, 1, TruncLen) \o <<".", ".", ".">> ELSE s

\* text[:500] + "..." if len(text) > 500 else text
RawText(s) ==
    IF Len(s) > TruncLen THEN SubSeq(s, 1, TruncLen) \o <<".", ".", ".">> ELSE s

\* the dictionary of the except branch
FallbackRecord(s) ==
    Dict([k \in {Key.error, Key.raw_text} |->
            IF k = Key.error THEN Str(<<"Failed to parse JSON">>)
                            ELSE Str(RawText(s))])

\* ExtractJsonTry with the brace scan tried before the fenced block
ExtractJsonTryBraceFirst(s) ==
    LET fenced == FenceSearch(s)
        braced == BraceSearch(s)
    IN  IF braced.found
        THEN [tier |-> "brace"] @@ JsonLoads(braced.group)
        ELSE IF fenced.found
             THEN [tier |-> "fence"] @@ JsonLoads(fenced.group)
             ELSE [tier |-> "whole"] @@ JsonLoads(s)

\* ExtractJsonTry that goes on to the next attempt when json.loads raises
ExtractJsonTryNextOnError(s) ==
    LET fenced == FenceSearch(s)
        braced == BraceSearch(s)
        inFence == [tier |-> "fence"] @@ JsonLoads(fenced.group)
        inBraces == [tier |-> "brace"] @@ JsonLoads(braced.group)
    IN  IF fenced.found /\ ~inFence.exc THEN inFence
        ELSE IF braced.found /\ ~inBraces.exc THEN inBraces
        ELSE [tier |-> "whole"] @@ JsonLoads(s)

\* the try block: [exc |-> json.loads raised, val |-> the value returned,
\* tier |-> the attempt that called json.loads]
ExtractJsonTry(s) ==
    LET fenced == FenceSearch(s)
        braced == BraceSearch(s)
    IN  IF fenced.found
        THEN [tier |-> "fence"] @@ JsonLoads(fenced.group)
        ELSE IF braced.found
             THEN [tier |-> "brace"] @@ JsonLoads(braced.group)
             ELSE [tier |-> "whole"] @@ JsonLoads(s)

\* ExtractJson without the except branch: the exception of json.loads escapes
ExtractJsonUncaught(s) ==
    LET r == ExtractJsonTry(s)
    IN  [raised |-> r.exc, value |-> r.val, tier |-> r.tier, fallback |-> FALSE]

\* ExtractJson whose except branch returns an empty dictionary
ExtractJsonEmptyFallback(s) ==
    LET r == ExtractJsonTry(s)
    IN  IF r.exc
        THEN [raised |-> FALSE, value |-> Dict(<<>>),
              tier |-> r.tier, fallback |-> TRUE]
        ELSE [raised |-> FALSE, value |-> r.val,
              tier |-> r.tier, fallback |-> FALSE]

\* ExtractJson that parses only the first reply handed to it and gives the
\* fallback record from then on
ExtractJsonFirstOnly(s) ==
    LET r == ExtractJsonTry(s)
    IN  IF r.exc \/ extractions > 0
        THEN [raised |-> FALSE, value |-> FallbackRecord(s),
              tier |-> r.tier, fallback |-> TRUE]
        ELSE [raised |-> FALSE, value |-> r.val,
              tier |-> r.tier, fallback |-> FALSE]

\* _extract_json(text): [raised |-> an exception left the call,
\* value |-> the value returned, tier, fallback |-> the except branch ran]
ExtractJson(s) ==
    LET r == ExtractJsonTry(s)
    IN  IF r.exc
        THEN [raised |-> FALSE, value |-> FallbackRecord(s),
              tier |-> r.tier, fallback |-> TRUE]
        ELSE [raised |-> FALSE, value |-> r.val,
              tier |-> r.tier, fallback |-> FALSE]

---------------------------------------------------------------------------
(* json.dumps, for the replies that carry the encoding of a value.  The    *)
(* strings of the values encoded here hold no quote, backslash or control  *)
(* character, so no character is escaped.                                  *)

RECURSIVE EncodeNat(_)
EncodeNat(n) ==
    LET d == CHOOSE c \in Digits : DigitVal(c) = n % 10
    IN  IF n < 10 THEN <<d>> ELSE EncodeNat(n \div 10) \o <<d>>

RECURSIVE Encode(_)
RECURSIVE EncodeMembers(_, _)
RECURSIVE EncodeElements(_, _)

EncodeMembers(f, keys) ==
    IF keys = {}
    THEN <<>>
    ELSE LET k    == CHOOSE x \in keys : TRUE
             rest == keys \ {k}
         IN  <<Quote>> \o k \o <<Quote, ":", " ">> \o Encode(f[k])
                 \o (IF rest = {} THEN <<>> ELSE <<",", " ">> \o EncodeMembers(f, rest))

EncodeElements(xs, i) ==
    IF i > Len(xs)
    THEN <<>>
    ELSE Encode(xs[i])
            \o (IF i = Len(xs) THEN <<>> ELSE <<",", " ">> \o EncodeElements(xs, i + 1))

Encode(x) ==
    CASE x.t = "null" -> <<"n", "u", "l", "l">>
      [] x.t = "bool" -> IF x.b THEN <<"t", "r", "u", "e">> ELSE <<"f", "a", "l", "s", "e">>
      [] x.t = "num"  -> EncodeNat(x.n)
      [] x.t = "str"  -> <<Quote>> \o x.s \o <<Quote>>
      [] x.t = "list" -> <<"[">> \o EncodeElements(x.l, 1) \o <<"]">>
      [] x.t = "dict" -> <<"{">> \o EncodeMembers(x.d, DOMAIN x.d) \o <<"}">>

---------------------------------------------------------------------------
(* Python operations on the values the pipeline handles.  An operation     *)
(* that can raise is guarded by the predicate that tells when it does not. *)

\* a float literal of the code, kept as written
Float(s) == [t |-> "float", f |-> s]

IsDict(x) == x.t = "dict"

IsStr(x) == x.t = "str"

\* d.get(k, default), for a dict d (on any other value .get raises AttributeError)
Get(d, k, default) == IF k \in DOMAIN d.d THEN d.d[k] ELSE default

\* bool(x)
Truthy(x) ==
    CASE x.t = "null"  -> FALSE
      [] x.t = "bool"  -> x.b
      [] x.t = "num"   -> x.n # 0
      [] x.t = "float" -> TRUE
      [] x.t = "str"   -> x.s # <<>>
      [] x.t = "list"  -> x.l # <<>>
      [] x.t = "dict"  -> DOMAIN x.d # {}

\* iter(x) does not raise TypeError
Iterable(x) == x.t \in {"list", "str", "dict"}

RECURSIVE SetToSeq(_)
\* the elements of a set in some order
SetToSeq(S) ==
    IF S = {} THEN <<>>
    ELSE LET x == CHOOSE y \in S : TRUE IN <<x>> \o SetToSeq(S \ {x})

\* list(x) for an iterable x: the elements, the characters, the keys
Items(x) ==
    CASE x.t = "list" -> x.l
      [] x.t = "str"  -> [i \in 1..Len(x.s) |-> Str(<<x.s[i]>>)]
      [] x.t = "dict" -> [i \in 1..Cardinality(DOMAIN x.d) |-> Str(SetToSeq(DOMAIN x.d)[i])]

\* sep.join(x) does not raise TypeError
Joinable(x) == Iterable(x) /\ \A i \in 1..Len(Items(x)) : IsStr(Items(x)[i])

\* sep.join(x) for a joinable x
Join(sep, x) ==
    LET xs == Items(x)
        RECURSIVE JoinFrom(_)
        JoinFrom(i) ==
            IF i > Len(xs) THEN <<>>
            ELSE xs[i].s \o (IF i = Len(xs) THEN <<>> ELSE <<sep>> \o JoinFrom(i + 1))
    IN  Str(JoinFrom(1))

RECURSIVE PyRepr(_)
RECURSIVE ReprElements(_, _)
RECURSIVE ReprMembers(_, _)

ReprElements(xs, i) ==
    IF i > Len(xs) THEN <<>>
    ELSE PyRepr(xs[i]) \o (IF i = Len(xs) THEN <<>> ELSE <<",", " ">> \o ReprElements(xs, i + 1))

ReprMembers(f, ks) ==
    IF ks = <<>> THEN <<>>
    ELSE <<"'">> \o Head(ks) \o <<"'", ":", " ">> \o PyRepr(f[Head(ks)])
            \o (IF Len(ks) = 1 THEN <<>> ELSE <<",", " ">> \o ReprMembers(f, Tail(ks)))

\* repr(x), for strings without quotes or escapes
PyRepr(x) ==
    CASE x.t = "null"  -> <<"None">>
      [] x.t = "bool"  -> IF x.b THEN <<"True">> ELSE <<"False">>
      [] x.t = "num"   -> EncodeNat(x.n)
      [] x.t = "float" -> <<x.f>>
      [] x.t = "str"   -> <<"'">> \o x.s \o <<"'">>
      [] x.t = "list"  -> <<"[">> \o ReprElements(x.l, 1) \o <<"]">>
      [] x.t = "dict"  -> <<"{">> \o ReprMembers(x.d, SetToSeq(DOMAIN x.d)) \o <<"}">>

\* str(x), as an f-string formats x
PyStr(x) == IF x.t = "str" THEN x.s ELSE PyRepr(x)

\* the places where sep occurs in s
Occurrences(s, sep) == {i \in 1..(Len(s) - Len(sep) + 1) : MatchAt(s, i, sep)}

\* s.split(sep)
SplitOn(s, sep) ==
    LET RECURSIVE SplitOnFrom(_)
        SplitOnFrom(start) ==
            LET next == {i \in Occurrences(s, sep) : i >= start}
            IN  IF next = {}
                THEN <<SubSeq(s, start, Len(s))>>
                ELSE <<SubSeq(s, start, Min(next) - 1)>> \o SplitOnFrom(Min(next) + Len(sep))
    IN  SplitOnFrom(1)

\* s.split()
SplitWs(s) ==
    LET RECURSIVE SplitWsFrom(_)
        SplitWsFrom(i) ==
            LET b == SkipChars(s, i, ReSpace)
            IN  IF b > Len(s)
                THEN <<>>
                ELSE LET ends == {k \in b..Len(s) : s[k] \in ReSpace}
                         e    == IF ends = {} THEN Len(s) + 1 ELSE Min(ends)
                     IN  <<SubSeq(s, b, e - 1)>> \o SplitWsFrom(e)
    IN  SplitWsFrom(1)

\* a list of str
StrList(parts) == List([i \in 1..Len(parts) |-> Str(parts[i])])

---------------------------------------------------------------------------
(* Identifiers, documents and the research topic *)

LowerCase == <<"a", "b", "c", "d", "e", "f", "g", "h", "i", "j", "k", "l", "m",
               "n", "o", "p", "q", "r", "s", "t", "u", "v", "w", "x", "y", "z">>

UpperCase == <<"A", "B", "C", "D", "E", "F", "G", "H", "I", "J", "K", "L", "M",
               "N", "O", "P", "Q", "R", "S", "T", "U", "V", "W", "X", "Y", "Z">>

ToLower(c) == IF \E i \in 1..26 : c = UpperCase[i]
              THEN LowerCase[CHOOSE i \in 1..26 : c = UpperCase[i]] ELSE c

\* s.title(): a letter that follows no letter is upper-cased, the others lower-cased
TitleCase(s) ==
    LET IsLetter(c) == \E i \in 1..26 : c = LowerCase[i] \/ c = UpperCase[i]
        ToUpper(c) == IF \E i \in 1..26 : c = LowerCase[i]
                      THEN UpperCase[CHOOSE i \in 1..26 : c = LowerCase[i]] ELSE c
    IN  [i \in 1..Len(s) |-> IF IsLetter(s[i]) /\ (i = 1 \/ ~IsLetter(s[i - 1]))
                             THEN ToUpper(s[i]) ELSE ToLower(s[i])]

\* s.lower()
LowerOf(s) == [i \in 1..Len(s) |-> ToLower(s[i])]

\* f"{n:02d}" for n < 100
TwoDigits(n) == IF n < 10 THEN <<"0">> \o EncodeNat(n) ELSE EncodeNat(n)

\* f"topic_{int(time.time())}"
TopicId(c) == <<"topic_">> \o EncodeNat(c)

\* f"doc_{int(time.time())}_{i}_{j}"
MockDocId(c, i, j) == <<"doc_">> \o EncodeNat(c) \o <<"_">> \o EncodeNat(i) \o <<"_">> \o EncodeNat(j)

\* f"doc_fallback_{int(time.time())}"
FallbackDocId(c) == <<"doc_fallback_">> \o EncodeNat(c)

\* f"doc_{result['id']}" with result['id'] = f"{int(time.time())}{i}"
SearchDocId(c, i) == <<"doc_">> \o EncodeNat(c) \o EncodeNat(i)

\* the default_scope of the planning step
DefaultScope ==
    Dict(Key.time_range :> StrList(<<<<"2020">>, <<"2023">>>>)
         @@ Key.domains :> StrList(<<<<"General">>>>)
         @@ Key.excluded_areas :> List(<<>>))

\* ResearchTopic(id, query, subtopics, keywords, scope)
ResearchTopic(id, q, subtopics, keywords, scope) ==
    [id |-> id, query |-> q, subtopics |-> subtopics, keywords |-> keywords, scope |-> scope]

\* the topic of the except branch of _create_research_plan
FallbackTopic(q, c) ==
    ResearchTopic(TopicId(c), Str(q), StrList(<<q>>), StrList(SplitWs(q)), DefaultScope)

\* the normal path of _create_research_plan after the reply: the .get calls
\* raise AttributeError when the extracted value is no dict
PlanRaises(plan_json) == ~IsDict(plan_json)

PlannedTopic(q, plan_json, c) ==
    LET parts == SplitOn(q, <<" ", "a", "n", "d", " ">>)
    IN  ResearchTopic(TopicId(c),
                      Get(plan_json, Key.main_query, Str(q)),
                      Get(plan_json, Key.subtopics, StrList(<<parts[1], parts[Len(parts)]>>)),
                      Get(plan_json, Key.keywords, StrList(SplitWs(q))),
                      Get(plan_json, Key.scope, DefaultScope))

\* the entry stored in self.research_plans
PlanEntry(plan_json, topic, c) ==
    [plan |-> plan_json, created_at |-> c, research_topic |-> topic]

\* ResearchDocument: the fields later steps read (content, abstract and
\* relevance_score only ever reach prompt text and are left out)
ResearchDocument(id, title, authors, date, source, url) ==
    [id |-> id, title |-> title, authors |-> authors, publication_date |-> date,
     source |-> source, url |-> url]

\* the try block of _generate_mock_documents raises.  KeywordsUsable:
\* research_topic.keywords is falsy, or something len() and [idx] work on.
\* TimeRangeUsable: research_topic.scope.get('time_range', [...]) and
\* time_range[0], time_range[1] work.
MockRaises(topic) ==
    LET KeywordsUsable(k) == ~Truthy(k) \/ k.t \in {"list", "str"}
        TimeRangeUsable(scope) ==
            /\ IsDict(scope)
            /\ LET tr == Get(scope, Key.time_range, StrList(<<<<"2020">>, <<"2023">>>>))
               IN  tr.t \in {"list", "str"} /\ Len(Items(tr)) >= 2
    IN
    \/ ~Iterable(topic.subtopics)
    \/ /\ Items(topic.subtopics) # <<>>
       /\ \/ ~KeywordsUsable(topic.keywords)
          \/ ~TimeRangeUsable(topic.scope)
          \/ \E i \in 1..Len(Items(topic.subtopics)) : ~IsStr(Items(topic.subtopics)[i])

MockDocument(topic, c, i, j) ==
    LET subtopic == Items(topic.subtopics)[i + 1].s
        id == MockDocId(c, i, j)
    IN  ResearchDocument(
            id,
            <<"Analysis of ">> \o TitleCase(subtopic) \o <<" in the Context of ">> \o PyStr(topic.query),
            <<<<"Author ">> \o EncodeNat(j + 1), <<"Author ">> \o EncodeNat(j + 2),
              <<"Author ">> \o EncodeNat(j + 3)>>,
            <<"202">> \o EncodeNat(j) \o <<"-">> \o TwoDigits(((i + 1) % 12) + 1),
            <<"Journal of ">> \o TitleCase(subtopic) \o <<" Research">>,
            <<"https://example.org/papers/">> \o id)

\* the single document of the except branch of _generate_mock_documents
FallbackDocument(topic, c) ==
    ResearchDocument(FallbackDocId(c), <<"Overview of ">> \o PyStr(topic.query),
                     <<<<"Default Author">>>>, <<"2023-01-01">>, <<"Default Source">>, <<"None">>)

\* _generate_mock_documents: two documents for each subtopic, in order
GenerateMockDocuments(topic, c) ==
    IF MockRaises(topic)
    THEN <<FallbackDocument(topic, c)>>
    ELSE [n \in 1..(2 * Len(Items(topic.subtopics))) |->
            MockDocument(topic, c, (n - 1) \div 2, (n - 1) % 2)]

\* what the random module gave one call of _search_academic_databases
RandomDraws ==
    { [year |-> 3, month |-> 1, journal |-> "Nature"],
      [year |-> 4, month |-> 12, journal |-> "The Lancet"] }

\* research_topic.keywords[:3]
FirstKeywords(topic) ==
    LET ks == Items(topic.keywords)
    IN  SubSeq(ks, 1, IF Len(ks) < 3 THEN Len(ks) ELSE 3)

\* the try block of _search_academic_databases raises
SearchRaises(topic) ==
    \/ topic.keywords.t \notin {"list", "str"}
    \/ \E i \in 1..Len(FirstKeywords(topic)) : ~IsStr(FirstKeywords(topic)[i])

SearchDocument(keyword, c, i, draw) ==
    LET underscored == [k \in 1..Len(keyword) |-> IF keyword[k] = " " THEN "_" ELSE keyword[k]]
    IN
    ResearchDocument(
        SearchDocId(c, i),
        <<"Research on ">> \o TitleCase(keyword) \o <<": Advances and Implications">>,
        <<<<"J. Smith">>, <<"A. Johnson">>, <<"M. Williams">>>>,
        <<"202">> \o EncodeNat(draw.year) \o <<"-">> \o TwoDigits(draw.month),
        <<draw.journal>>,
        <<"https://example.com/papers/">> \o underscored \o EncodeNat(i))

\* _search_academic_databases: three results for each of the first three keywords
SearchAcademicDatabases(topic, c, draw) ==
    IF SearchRaises(topic)
    THEN <<>>
    ELSE [n \in 1..(3 * Len(FirstKeywords(topic))) |->
            SearchDocument(FirstKeywords(topic)[((n - 1) \div 3) + 1].s, c, (n - 1) % 3, draw)]

RECURSIVE StoreAll(_, _, _)
\* for doc in retrieved_documents: self.documents[doc.id] = doc
StoreAll(registry, ds, i) ==
    IF i > Len(ds) THEN registry
    ELSE StoreAll(DictPut(registry, ds[i].id, ds[i]), ds, i + 1)

---------------------------------------------------------------------------
(* Outcomes of one call of self.client.messages.create *)

\* the call raises (network, authentication, rate limit)
Raise == [kind |-> "raise"]

\* the call returns and response.content[0].text is the given text
Reply(t) == [kind |-> "reply", text |-> t]

(* What the service may answer, step by step *)


\* the most service outcomes of one invocation that are not the answer asked for
MaxFaults == 2

AsFenced(obj) == Fence \o JsonTag \o <<"\n">> \o Encode(obj) \o <<"\n">> \o Fence

\* a reply with nothing to parse: _extract_json gives the fallback record
Unparseable == Reply(<<"s", "o", "r", "r", "y">>)

\* a reply that is valid JSON but no object
NotAnObject == Reply(Encode(List(<<Num(1)>>)))

One(c) == Str(<<c>>)

\* the queries conduct_research is invoked with
Queries == { <<"x", " ", "a", "n", "d", " ", "y">>, <<>> }

\* no reply was handed to the step
NoReply == [t |-> "absent"]

\* The outcomes a step may meet: whether the call raised, whether the outcome
\* is one of the faulty ones, and what self._extract_json(response_content)
\* gives the step for the reply
Service(answers, faulty) ==
    {[kind  |-> o.kind,
      fault |-> o \in faulty,
      value |-> IF o.kind = "raise" THEN NoReply ELSE ExtractJson(o.text).value] :
        o \in answers \cup faulty}

\* the call of _create_research_plan: the answers asked for, then the failures and the
\* replies that are not what was asked
PlanOutcomes ==
    Service(
        { Reply(AsFenced(Dict(Key.main_query :> One("q")
                              @@ Key.subtopics :> List(<<One("x")>>)
                              @@ Key.keywords :> List(<<One("k")>>)
                              @@ Key.scope :> Dict(Key.time_range :> List(<<One("1"), One("2")>>))))),
          Reply(<<"o", "k", ":", " ">> \o Encode(Dict(Key.subtopics :> List(<<One("y")>>)))
                    \o <<" ", "e", "n", "d">>) },
        { Raise, Unparseable, NotAnObject,
          Reply(Encode(Dict(Key.subtopics :> List(<<>>)))),
          Reply(Encode(Dict(Key.subtopics :> Num(5)))),
          Reply(Encode(Dict(Key.subtopics :> List(<<Num(1)>>)))),
          Reply(Encode(Dict(Key.subtopics :> List(<<One("x")>>) @@ Key.keywords :> Num(5)))),
          Reply(Encode(Dict(Key.subtopics :> List(<<One("x")>>) @@ Key.scope :> Null))) })

\* the call of _extract_information: the answers asked for, then the failures and the
\* replies that are not what was asked
ExtractionOutcomes ==
    Service(
        { Reply(AsFenced(Dict(Key.key_findings :>
                    List(<<Dict(Key.finding :> One("x") @@ Key.confidence :> Num(1))>>)))) },
        { Raise, Unparseable, NotAnObject,
          Reply(Encode(Dict(Key.key_findings :> Num(5)))),
          Reply(Encode(Dict(Key.key_findings :> List(<<Dict(Key.confidence :> Num(1)), Num(5)>>)))),
          Reply(Encode(Dict(Key.key_findings :> List(<<Dict(Key.finding :> Num(5))>>)))) })

\* the call of _synthesize_findings: the answers asked for, then the failures and the
\* replies that are not what was asked
SynthesisOutcomes ==
    Service(
        { Reply(AsFenced(Dict(Key.title :> One("t")
                              @@ Key.executive_summary :> One("s")
                              @@ Key.synthesis_by_subtopic :>
                                    List(<<Dict(Key.subtopic :> One("x") @@ Key.key_insights :> List(<<One("i")>>))>>)
                              @@ Key.research_gaps :> List(<<One("g")>>)
                              @@ Key.future_directions :> List(<<One("d")>>)))) },
        { Raise, Unparseable, NotAnObject,
          Reply(Encode(Dict(Key.research_gaps :> Null))),
          Reply(Encode(Dict(Key.future_directions :> Num(5)))),
          Reply(Encode(Dict(Key.title :> Str(<<>>)))),
          Reply(Encode(Dict(Key.synthesis_by_subtopic :> Num(5)))),
          Reply(Encode(Dict(Key.synthesis_by_subtopic :> List(<<Dict(Key.key_insights :> Num(5))>>)))) })

\* the call of _generate_insights: the answers asked for, then the failures and the
\* replies that are not what was asked
InsightsOutcomes ==
    Service(
        { Reply(AsFenced(Dict(Key.deeper_patterns :> List(<<One("p")>>)
                              @@ Key.practical_applications :> List(<<One("a")>>)
                              @@ Key.enhanced_future_directions :> List(<<One("e")>>)))) },
        { Raise, Unparseable, NotAnObject,
          Reply(Encode(Dict(Key.deeper_patterns :> Num(5)))),
          Reply(Encode(Dict(Key.deeper_patterns :> List(<<One("p")>>) @@ Key.practical_applications :> Num(5)))),
          Reply(Encode(Dict(Key.enhanced_future_directions :> Null))) })

\* the call of _format_research_output: the answers asked for, then the failures and the
\* replies that are not what was asked
FormatOutcomes ==
    Service(
        { Reply(AsFenced(Dict(Key.title :> One("r")
                              @@ Key.executive_summary :> One("e")
                              @@ Key.introduction :> One("i")
                              @@ Key.methodology :> One("m")
                              @@ Key.key_findings :> One("k")
                              @@ Key.discussion :> One("d")
                              @@ Key.research_gaps :> One("g")
                              @@ Key.future_directions :> One("f")
                              @@ Key.conclusion :> One("c")
                              @@ Key.bibliography :> List(<<One("b")>>)))) },
        { Raise, Unparseable, NotAnObject,
          Reply(Encode(Dict(Key.title :> Str(<<>>)))),
          Reply(Encode(Dict(Key.bibliography :> Num(5)))) })

\* what the step gets from self._extract_json(response_content)
Extracted(outcome) == outcome.value

---------------------------------------------------------------------------
(* _extract_information *)

\* ResearchFinding(id, content, source_documents, confidence, tags)
ResearchFinding(id, content, source_documents, confidence, tags) ==
    [id |-> id, content |-> content, source_documents |-> source_documents,
     confidence |-> confidence, tags |-> tags]

\* f"finding_{document.id}_{i}"
FindingId(doc, i) == <<"finding_">> \o doc.id \o <<"_">> \o EncodeNat(i)

\* f"finding_fallback_{int(time.time())}"
FallbackFindingId(c) == <<"finding_fallback_">> \o EncodeNat(c)

\* the key_findings used when the reply has none
DefaultKeyFindings(topic) ==
    List(<<Dict(Key.finding :> Str(<<"The document discusses ">> \o PyStr(topic.query) \o <<".">>)
                @@ Key.evidence :> Str(<<"Not specified">>)
                @@ Key.relevance :> Str(<<"Directly related to the research question">>)
                @@ Key.confidence :> Float("0.7"))>>)

DefaultFindingContent == Str(<<"No finding specified">>)

DefaultConfidence == Float("0.7")

\* building the ResearchFinding of one element of key_findings does not raise:
\* .get needs a dict, and .lower() a str once there is a subtopic to look for
FindingUsable(finding_data, topic) ==
    /\ IsDict(finding_data)
    /\ Items(topic.subtopics) = <<>> \/ IsStr(Get(finding_data, Key.finding, Str(<<>>)))

\* [research_topic.query] + [st for st in subtopics if st.lower() in finding.lower()]
FindingTags(finding_data, topic) ==
    LET where == LowerOf(Get(finding_data, Key.finding, Str(<<>>)).s)
        Contains(s, sub) == sub = <<>> \/ Occurrences(s, sub) # {}
        Hit(st) == Contains(where, LowerOf(st.s))
    IN  <<topic.query>> \o SelectSeq(Items(topic.subtopics), Hit)

ExtractedFinding(doc, finding_data, i, topic) ==
    ResearchFinding(FindingId(doc, i),
                    Get(finding_data, Key.finding, DefaultFindingContent),
                    <<doc.id>>,
                    Get(finding_data, Key.confidence, DefaultConfidence),
                    FindingTags(finding_data, topic))

\* the finding returned by the except branch of _extract_information
FallbackFinding(docs, topic, c) ==
    ResearchFinding(FallbackFindingId(c),
                    Str(<<"General information about ">> \o PyStr(topic.query)),
                    IF docs = <<>> THEN <<>> ELSE <<docs[1].id>>,
                    Float("0.5"),
                    <<topic.query>>)

\* the prompt of one document cannot be built: ', '.join(subtopics) raises
ExtractionPromptRaises(topic) == ~Joinable(topic.subtopics)

\* the key_findings of a reply, with the default for a missing or empty one
KeyFindingsOf(findings_json, topic) ==
    LET given == Get(findings_json, Key.key_findings, List(<<>>))
    IN  IF Truthy(given) THEN given ELSE DefaultKeyFindings(topic)

\* One turn of the loop over the documents, for a reply that was received:
\* the findings made before the first element that raises, and whether one did
ExtractFromReply(doc, topic, findings_json) ==
    IF ~IsDict(findings_json) \/ ~Iterable(KeyFindingsOf(findings_json, topic))
    THEN [raises |-> TRUE, made |-> <<>>]
    ELSE LET items == Items(KeyFindingsOf(findings_json, topic))
             bad   == {i \in 1..Len(items) : ~FindingUsable(items[i], topic)}
             stop  == IF bad = {} THEN Len(items) + 1 ELSE Min(bad)
         IN  [raises |-> bad # {},
              made   |-> [i \in 1..(stop - 1) |-> ExtractedFinding(doc, items[i], i - 1, topic)]]

\* One turn of the loop over the documents
ExtractFromDocument(doc, topic, outcome) ==
    IF ExtractionPromptRaises(topic)
    THEN [called |-> FALSE, raises |-> TRUE, made |-> <<>>]
    ELSE IF outcome.kind = "raise"
    THEN [called |-> TRUE, raises |-> TRUE, made |-> <<>>]
    ELSE [called |-> TRUE] @@ ExtractFromReply(doc, topic, Extracted(outcome))

---------------------------------------------------------------------------
(* _synthesize_findings and _create_default_synthesis *)

\* ResearchSynthesis(id, title, summary, key_findings, document_coverage,
\*                   gaps_identified, future_directions, bibliography)
ResearchSynthesis(id, title, summary, key_findings, document_coverage, gaps_identified, future_directions, bibliography) ==
    [id |-> id, title |-> title, summary |-> summary, key_findings |-> key_findings,
     document_coverage |-> document_coverage, gaps_identified |-> gaps_identified,
     future_directions |-> future_directions, bibliography |-> bibliography]

\* f"synthesis_{int(time.time())}"
SynthesisId(c) == <<"synthesis_">> \o EncodeNat(c)

\* f"synthesis_default_{int(time.time())}"
DefaultSynthesisId(c) == <<"synthesis_default_">> \o EncodeNat(c)

\* f"default_finding_{int(time.time())}"
DefaultFindingId(c) == <<"default_finding_">> \o EncodeNat(c)

\* f"syn_finding_{i}_{j}"
SynFindingId(i, j) == <<"syn_finding_">> \o EncodeNat(i) \o <<"_">> \o EncodeNat(j)

General == Str(<<"General">>)

DefaultFutureDirections == List(<<Str(<<"Expand the scope of research.">>)>>)

\* f"Research on {research_topic.query}"
DefaultTitle(topic) == Str(<<"Research on ">> \o PyStr(topic.query))

\* f"Summary of research on {research_topic.query}."
DefaultSummary(topic) == Str(<<"Summary of research on ">> \o PyStr(topic.query) \o <<".">>)

\* [f"Further research needed on {research_topic.query}."]
DefaultGaps(topic) ==
    List(<<Str(<<"Further research needed on ">> \o PyStr(topic.query) \o <<".">>)>>)

CreateDefaultSynthesis(topic, c) ==
    ResearchSynthesis(
        DefaultSynthesisId(c),
        DefaultTitle(topic),
        Str(<<"This is a default synthesis for ">> \o PyStr(topic.query) \o <<".">>),
        <<ResearchFinding(DefaultFindingId(c),
                          Str(<<"General information about ">> \o PyStr(topic.query) \o <<".">>),
                          <<>>, Float("0.5"), <<General>>)>>,
        <<>>,
        List(<<Str(<<"More research needed on ">> \o PyStr(topic.query) \o <<".">>)>>),
        DefaultFutureDirections,
        <<>>)

\* _format_citation, for documents whose authors are a list of str
FormatCitation(doc) ==
    Join(", ", StrList(doc.authors)).s \o <<". (">> \o doc.publication_date \o <<"). ">>
        \o doc.title \o <<". ">> \o doc.source \o <<".">>

\* findings_data without the two checks: every finding is sent
WithAnySource(fs, registry) == fs

\* the findings that enter findings_data
WithRegisteredSource(fs, registry) ==
    LET Known(f) == f.source_documents # <<>> /\ f.source_documents[1] \in DOMAIN registry
    IN  SelectSeq(fs, Known)

\* the same list without set(): an identifier for each reference to it
DocumentIdsWithRepeats(fs, registry, order) ==
    LET Known(id) == id \in DOMAIN registry
        RECURSIVE From(_)
        From(i) == IF i > Len(fs) THEN <<>>
                   ELSE SelectSeq(fs[i].source_documents, Known) \o From(i + 1)
    IN  From(1)

\* list(set([doc_id for finding in findings for doc_id in finding.source_documents
\*           if doc_id in self.documents]))
\* The order of list(set(...)) is the order of the hash table: it is not fixed
\* by the elements, and the step may meet one order or its reverse.
DocumentIds(fs, registry, order) ==
    LET ids == SetToSeq({id \in DOMAIN registry :
                            \E i \in 1..Len(fs) : \E k \in 1..Len(fs[i].source_documents) :
                                fs[i].source_documents[k] = id})
    IN  IF order = "forward" THEN ids ELSE [k \in 1..Len(ids) |-> ids[Len(ids) + 1 - k]]

\* the orders list(set(...)) is met with
HashOrders == {"forward", "backward"}

\* the synthesis_by_subtopic made up when the reply has none and there are subtopics
DefaultSynthesisBySubtopic(topic) ==
    LET sts == Items(topic.subtopics)
    IN  List([i \in 1..Len(sts) |->
                Dict(Key.subtopic :> sts[i]
                     @@ Key.synthesis :> Str(<<"Analysis of ">> \o PyStr(sts[i]) \o <<" in relation to ">>
                                            \o PyStr(topic.query) \o <<".">>)
                     @@ Key.key_insights :> List(<<Str(<<"Key insight about ">> \o PyStr(sts[i]) \o <<".">>)>>))])

SynthesisBySubtopicOf(synthesis_json, topic) ==
    LET given == Get(synthesis_json, Key.synthesis_by_subtopic, List(<<>>))
    IN  IF ~Truthy(given) /\ Truthy(topic.subtopics)
        THEN DefaultSynthesisBySubtopic(topic) ELSE given

\* the insights of one element of synthesis_by_subtopic
InsightsOf(entry) == Get(entry, Key.key_insights, List(<<>>))

\* the loop over synthesis_by_subtopic does not raise on this element
SubtopicEntryUsable(entry) ==
    IsDict(entry) /\ (Truthy(InsightsOf(entry)) => Iterable(InsightsOf(entry)))

\* the findings made from one element of synthesis_by_subtopic
SubtopicFindings(entry, i, document_ids) ==
    IF ~Truthy(InsightsOf(entry)) THEN <<>>
    ELSE LET ins == Items(InsightsOf(entry))
         IN  [j \in 1..Len(ins) |->
                ResearchFinding(SynFindingId(i, j - 1), ins[j], document_ids, Float("0.9"),
                                <<Get(entry, Key.subtopic, General)>>)]

RECURSIVE SynthesisFindings(_, _, _)
SynthesisFindings(entries, n, document_ids) ==
    IF n > Len(entries) THEN <<>>
    ELSE SubtopicFindings(entries[n], n - 1, document_ids)
            \o SynthesisFindings(entries, n + 1, document_ids)

\* the finding added when the loop made none
DefaultSynFinding(topic, document_ids) ==
    ResearchFinding(<<"syn_finding_default">>,
                    Str(<<"General insight about ">> \o PyStr(topic.query) \o <<".">>),
                    document_ids, Float("0.7"), <<General>>)

\* handling the reply raises inside the try block of _synthesize_findings
SynthesisReplyRaises(synthesis_json, topic) ==
    \/ ~IsDict(synthesis_json)
    \/ ~Iterable(SynthesisBySubtopicOf(synthesis_json, topic))
    \/ LET entries == Items(SynthesisBySubtopicOf(synthesis_json, topic))
       IN  \E n \in 1..Len(entries) : ~SubtopicEntryUsable(entries[n])

\* the ResearchSynthesis of the normal path
SynthesisFromReply(synthesis_json, fs, topic, registry, order, c) ==
    LET document_ids == DocumentIds(fs, registry, order)
        made == SynthesisFindings(Items(SynthesisBySubtopicOf(synthesis_json, topic)), 1, document_ids)
    IN  ResearchSynthesis(
            SynthesisId(c),
            Get(synthesis_json, Key.title, DefaultTitle(topic)),
            Get(synthesis_json, Key.executive_summary, DefaultSummary(topic)),
            IF made = <<>> THEN <<DefaultSynFinding(topic, document_ids)>> ELSE made,
            document_ids,
            Get(synthesis_json, Key.research_gaps, DefaultGaps(topic)),
            Get(synthesis_json, Key.future_directions, DefaultFutureDirections),
            [k \in 1..Len(document_ids) |-> FormatCitation(registry[document_ids[k]])])

\* _synthesize_findings: whether the service is called, which path is taken,
\* the synthesis returned and whether it is stored in self.syntheses
SynthesizeFindings(fs, topic, registry, outcome, order, c) ==
    IF fs = <<>> \/ WithRegisteredSource(fs, registry) = <<>>
    THEN [called |-> FALSE, way |-> "default", stored |-> FALSE,
          synthesis |-> CreateDefaultSynthesis(topic, c)]
    ELSE IF ~Joinable(topic.subtopics)
    THEN [called |-> FALSE, way |-> "fallback", stored |-> FALSE,
          synthesis |-> CreateDefaultSynthesis(topic, c)]
    ELSE IF outcome.kind = "raise" \/ SynthesisReplyRaises(Extracted(outcome), topic)
    THEN [called |-> TRUE, way |-> "fallback", stored |-> FALSE,
          synthesis |-> CreateDefaultSynthesis(topic, c)]
    ELSE [called |-> TRUE, way |-> "normal", stored |-> TRUE,
          synthesis |-> SynthesisFromReply(Extracted(outcome), fs, topic, registry, order, c)]

---------------------------------------------------------------------------
(* _generate_insights *)

\* f"pattern_finding_{i}"
PatternFindingId(i) == <<"pattern_finding_">> \o EncodeNat(i)

\* f"application_finding_{i}"
ApplicationFindingId(i) == <<"application_finding_">> \o EncodeNat(i)

DeeperPatternsOf(insights_json) == Get(insights_json, Key.deeper_patterns, List(<<>>))

PracticalApplicationsOf(insights_json) == Get(insights_json, Key.practical_applications, List(<<>>))

\* the findings of the first loop of _generate_insights
PatternFindings(insights_json, syn) ==
    LET ps == Items(DeeperPatternsOf(insights_json))
    IN  [i \in 1..Len(ps) |->
            ResearchFinding(PatternFindingId(i - 1), ps[i], syn.document_coverage,
                            Float("0.85"), <<Str(<<"pattern">>), Str(<<"insight">>)>>)]

\* the findings of the second loop of _generate_insights
ApplicationFindings(insights_json, syn) ==
    LET as == Items(PracticalApplicationsOf(insights_json))
    IN  [i \in 1..Len(as) |->
            ResearchFinding(ApplicationFindingId(i - 1), as[i], syn.document_coverage,
                            Float("0.8"), <<Str(<<"application">>), Str(<<"insight">>)>>)]

\* the copy made before the loops
EnhancedCopy(insights_json, syn) ==
    [syn EXCEPT !.future_directions = Get(insights_json, Key.enhanced_future_directions, syn.future_directions)]

\* _generate_insights: the synthesis returned and the findings it stored in
\* self.findings, in the order they were stored
GenerateInsights(syn, outcome) ==
    IF outcome.kind = "raise" \/ ~IsDict(Extracted(outcome))
    THEN [way |-> "fallback", result |-> syn, registered |-> <<>>]
    ELSE LET insights_json == Extracted(outcome)
         IN  IF ~Iterable(DeeperPatternsOf(insights_json))
             THEN [way |-> "fallback", result |-> syn, registered |-> <<>>]
             ELSE IF ~Iterable(PracticalApplicationsOf(insights_json))
             THEN [way |-> "fallback", result |-> syn,
                   registered |-> PatternFindings(insights_json, syn)]
             ELSE LET added == PatternFindings(insights_json, syn)
                                   \o ApplicationFindings(insights_json, syn)
                  IN  [way |-> "normal",
                       result |-> [EnhancedCopy(insights_json, syn) EXCEPT
                                      !.key_findings = syn.key_findings \o added],
                       registered |-> added]

---------------------------------------------------------------------------
(* _format_research_output *)

\* the "metadata" entry of both reports; generation_date is
\* datetime.now().isoformat()
Metadata(syn, c) ==
    Dict(Key.research_question :> syn.title
         @@ Key.document_count :> Num(Len(syn.document_coverage))
         @@ Key.finding_count :> Num(Len(syn.key_findings))
         @@ Key.generation_date :> Str(<<"2026-01-01T00:00:">> \o TwoDigits(c))
         @@ Key.research_id :> Str(syn.id))

\* f"Introduction to {synthesis.title}"
DefaultIntroduction(syn) == Str(<<"Introduction to ">> \o PyStr(syn.title))

\* the final_output of the try block
FinalOutput(report_json, syn, c) ==
    Dict(Key.title :> Get(report_json, Key.title, syn.title)
         @@ Key.executive_summary :> Get(report_json, Key.executive_summary, syn.summary)
         @@ Key.introduction :> Get(report_json, Key.introduction, DefaultIntroduction(syn))
         @@ Key.methodology :> Get(report_json, Key.methodology, Str(<<"Methodology section">>))
         @@ Key.key_findings :> Get(report_json, Key.key_findings, Str(<<"Key findings section">>))
         @@ Key.discussion :> Get(report_json, Key.discussion, Str(<<"Discussion section">>))
         @@ Key.research_gaps :> Get(report_json, Key.research_gaps, Str(<<"Research gaps section">>))
         @@ Key.future_directions :> Get(report_json, Key.future_directions, Str(<<"Future directions section">>))
         @@ Key.conclusion :> Get(report_json, Key.conclusion, Str(<<"Conclusion section">>))
         @@ Key.bibliography :> Get(report_json, Key.bibliography, StrList(syn.bibliography))
         @@ Key.metadata :> Metadata(syn, c))

\* "\n".join([f"- {x}" for x in xs]) for a sequence of values
BulletLines(xs) ==
    Join("\n", List([i \in 1..Len(xs) |-> Str(<<"- ">> \o PyStr(xs[i]))]))

\* the except branch of _format_research_output raises: it iterates over
\* synthesis.gaps_identified and synthesis.future_directions
BasicReportRaises(syn) == ~Iterable(syn.gaps_identified) \/ ~Iterable(syn.future_directions)

\* the report of the except branch
BasicReport(syn, c) ==
    Dict(Key.title :> syn.title
         @@ Key.executive_summary :> syn.summary
         @@ Key.introduction :> DefaultIntroduction(syn)
         @@ Key.methodology :> Str(<<"This research was conducted through a systematic review of literature.">>)
         @@ Key.key_findings :> BulletLines([i \in 1..Len(syn.key_findings) |-> syn.key_findings[i].content])
         @@ Key.discussion :> Str(<<"Discussion of the findings and their implications.">>)
         @@ Key.research_gaps :> BulletLines(Items(syn.gaps_identified))
         @@ Key.future_directions :> BulletLines(Items(syn.future_directions))
         @@ Key.conclusion :> Str(<<"In conclusion, this research on ">> \o PyStr(syn.title)
                                  \o <<" provides valuable insights.">>)
         @@ Key.bibliography :> StrList(syn.bibliography)
         @@ Key.metadata :> Metadata(syn, c))

\* _format_research_output: the report returned, or the exception that leaves
\* the except branch
FormatResearchOutput(syn, outcome, c) ==
    IF outcome.kind = "reply" /\ IsDict(Extracted(outcome))
    THEN [way |-> "normal", output |-> FinalOutput(Extracted(outcome), syn, c)]
    ELSE IF BasicReportRaises(syn)
    THEN [way |-> "raised", output |-> Null]
    ELSE [way |-> "fallback", output |-> BasicReport(syn, c)]

---------------------------------------------------------------------------
(* conduct_research, one action for each step *)

Stages == <<"plan", "retrieve", "extract", "synthesize", "insights", "format">>

StageSet == {Stages[i] : i \in 1..Len(Stages)}

\* the step conduct_research goes to when the given step has returned
StageAfterSkipping(s) ==
    CASE s = "plan"       -> "retrieve"
      [] s = "retrieve"   -> "extract"
      [] s = "extract"    -> "synthesize"
      [] s = "synthesize" -> "format"
      [] s = "insights"   -> "format"
      [] s = "format"     -> "returned"

\* StageAfter of a conduct_research that returns as soon as a step ends
\* with the time budget used up
StageAfterWithinBudget(s) ==
    IF time_limit # Null /\ clock - start_time > time_limit.n
    THEN "returned"
    ELSE CASE s = "plan"       -> "retrieve"
           [] s = "retrieve"   -> "extract"
           [] s = "extract"    -> "synthesize"
           [] s = "synthesize" -> "insights"
           [] s = "insights"   -> "format"
           [] s = "format"     -> "returned"

StageAfter(s) ==
    CASE s = "plan"       -> "retrieve"
      [] s = "retrieve"   -> "extract"
      [] s = "extract"    -> "synthesize"
      [] s = "synthesize" -> "insights"
      [] s = "insights"   -> "format"
      [] s = "format"     -> "returned"

\* a loop that ends after its first turn
LoopEndsAtOnce(i, docs) == i >= 1

\* for document in documents: the loop that is at document i ends after it
\* when it is the last one
LoopEnds(i, docs) == i = Len(docs)

\* the outcome may be drawn: faulty ones only while the budget lasts
Drawn(outcome) == ~outcome.fault \/ faults < MaxFaults

Spent(outcome) == IF outcome.fault THEN faults + 1 ELSE faults

harness == <<text, origin, result, extractions>>

pipeline == <<pc, query, time_limit, start_time, invocations, search_api_key, clock, research_topic, retrieved_docs, xi, extracted,
              synthesis, enhanced_synthesis, final_output, documents, findings,
              research_plans, syntheses, faults, trace, calls, path, got, svcFailed, printed>>

\* the agent after __init__, before conduct_research is invoked
Constructed ==
    /\ pc = "idle"
    /\ query = <<>>
    /\ time_limit = Null
    /\ start_time = 0
    /\ invocations = 0
    /\ clock = 1
    /\ research_topic = Null
    /\ retrieved_docs = <<>>
    /\ xi = 1
    /\ extracted = <<>>
    /\ synthesis = Null
    /\ enhanced_synthesis = Null
    /\ final_output = Null
    /\ documents = <<>>
    /\ findings = <<>>
    /\ research_plans = <<>>
    /\ syntheses = <<>>
    /\ trace = <<>>
    /\ calls = [s \in StageSet |-> 0]
    /\ path = [s \in StageSet |-> "pending"]
    /\ got = [s \in StageSet |-> NoReply]
    /\ svcFailed = [s \in StageSet |-> FALSE]
    /\ printed = <<>>

\* the most invocations of conduct_research on one agent
MaxInvocations == 2

\* the clock is followed up to this second
MaxClock == 2

\* the values of time_limit: not given, zero, one second
TimeLimits == {Null, Num(0), Num(1)}

\* a caller invokes conduct_research(query, time_limit=limit), limit one of
\* limits: the locals are fresh, start_time = time.time(), and self is the
\* agent as the invocations before left it
InvokeWith(limits) ==
    /\ pc = "idle"
    /\ invocations < MaxInvocations
    /\ \E q \in Queries, limit \in limits : query' = q /\ time_limit' = limit
    /\ start_time' = clock
    /\ invocations' = invocations + 1
    /\ research_topic' = Null
    /\ retrieved_docs' = <<>>
    /\ xi' = 1
    /\ extracted' = <<>>
    /\ synthesis' = Null
    /\ enhanced_synthesis' = Null
    /\ final_output' = Null
    /\ trace' = <<>>
    /\ calls' = [s \in StageSet |-> 0]
    /\ path' = [s \in StageSet |-> "pending"]
    /\ got' = [s \in StageSet |-> NoReply]
    /\ svcFailed' = [s \in StageSet |-> FALSE]
    /\ printed' = <<>>
    /\ pc' = "plan"
    /\ UNCHANGED <<search_api_key, clock, documents, findings, research_plans, syntheses,
                   faults, harness>>

\* a caller invokes conduct_research(query)
Invoke == InvokeWith({Null})

\* a second passes while the program is at one of the places in at
Tick(at) ==
    /\ pc \in at
    /\ clock < MaxClock
    /\ clock' = clock + 1
    /\ UNCHANGED <<pc, query, time_limit, start_time, invocations, search_api_key,
                   research_topic, retrieved_docs, xi, extracted, synthesis,
                   enhanced_synthesis, final_output, documents, findings, research_plans,
                   syntheses, faults, trace, calls, path, got, svcFailed, printed, harness>>

\* conduct_research has returned or raised; its caller goes on and may invoke
\* it again on the same agent
ReturnToCaller ==
    /\ pc \in {"returned", "raised"}
    /\ pc' = "idle"
    /\ UNCHANGED <<query, time_limit, start_time, invocations, search_api_key, clock,
                   research_topic, retrieved_docs, xi, extracted, synthesis,
                   enhanced_synthesis, final_output, documents, findings, research_plans,
                   syntheses, faults, trace, calls, path, got, svcFailed, printed, harness>>

\* MainEnds of a main that writes the file whatever conduct_research did
MainEndsSavingAnyway ==
    /\ pc \in {"returned", "raised"}
    /\ pc' = "saved"
    /\ printed' = Append(printed, "Full research report saved")
    /\ UNCHANGED <<query, time_limit, start_time, invocations, search_api_key, clock,
                   research_topic, retrieved_docs, xi, extracted, synthesis,
                   enhanced_synthesis, final_output, documents, findings, research_plans,
                   syntheses, faults, trace, calls, path, got, svcFailed, harness>>

\* main after conduct_research: with the report it prints title, summary,
\* key findings (len() of them) and conclusion and writes the file; with an
\* exception, from conduct_research or from the printing, it prints
\* "Error in main function" and writes nothing
MainEnds ==
    /\ pc \in {"returned", "raised"}
    /\ LET ok == /\ pc = "returned"
                 /\ final_output.d[Key.key_findings].t \in {"str", "list", "dict"}
       IN  /\ pc' = IF ok THEN "saved" ELSE "failed"
           /\ printed' = Append(printed, IF ok THEN "Full research report saved"
                                         ELSE "Error in main function")
    /\ UNCHANGED <<query, time_limit, start_time, invocations, search_api_key, clock,
                   research_topic, retrieved_docs, xi, extracted, synthesis,
                   enhanced_synthesis, final_output, documents, findings, research_plans,
                   syntheses, faults, trace, calls, path, got, svcFailed, harness>>

\* step 1: _create_research_plan
CreateResearchPlan ==
    /\ pc = "plan"
    /\ \E outcome \in PlanOutcomes :
        /\ Drawn(outcome)
        /\ faults' = Spent(outcome)
        /\ got' = [got EXCEPT !["plan"] = Extracted(outcome)]
        /\ svcFailed' = [svcFailed EXCEPT !["plan"] = (outcome.kind = "raise")]
        /\ IF outcome.kind = "raise" \/ PlanRaises(Extracted(outcome))
           THEN /\ research_topic' = FallbackTopic(query, clock)
                /\ research_plans' = research_plans
                /\ path' = [path EXCEPT !["plan"] = "fallback"]
                /\ printed' = Append(printed, "Error creating research plan")
           ELSE /\ research_topic' = PlannedTopic(query, Extracted(outcome), clock)
                /\ research_plans' =
                      DictPut(research_plans, TopicId(clock),
                              PlanEntry(Extracted(outcome),
                                        PlannedTopic(query, Extracted(outcome), clock), clock))
                /\ path' = [path EXCEPT !["plan"] = "normal"]
                /\ printed' = printed
    /\ calls' = [calls EXCEPT !["plan"] = @ + 1]
    /\ trace' = Append(trace, "plan")
    /\ pc' = StageAfter("plan")
    /\ UNCHANGED <<query, time_limit, start_time, invocations, search_api_key, clock, retrieved_docs, xi, extracted, synthesis,
                   enhanced_synthesis, final_output, documents, findings, syntheses, harness>>

\* step 2: _retrieve_documents, with _search_academic_databases and
\* _mock_api_results, or _generate_mock_documents
RetrieveDocuments ==
    /\ pc = "retrieve"
    /\ \E draw \in RandomDraws :
         LET docs == IF Truthy(search_api_key)
                     THEN SearchAcademicDatabases(research_topic, clock, draw)
                     ELSE GenerateMockDocuments(research_topic, clock)
             failed == IF Truthy(search_api_key)
                       THEN SearchRaises(research_topic) ELSE MockRaises(research_topic)
         IN  /\ retrieved_docs' = docs
             /\ documents' = StoreAll(documents, docs, 1)
             /\ printed' = IF ~failed THEN printed
                           ELSE IF Truthy(search_api_key)
                           THEN Append(printed, "Error searching academic databases")
                           ELSE Append(printed, "Error generating mock documents")
    /\ path' = [path EXCEPT !["retrieve"] = "normal"]
    /\ trace' = Append(trace, "retrieve")
    /\ pc' = StageAfter("retrieve")
    /\ UNCHANGED <<query, time_limit, start_time, invocations, search_api_key, clock, research_topic, xi, extracted, synthesis,
                   enhanced_synthesis, final_output, findings, research_plans, syntheses,
                   faults, calls, got, svcFailed, harness>>

\* step 3: _extract_information, one turn of its loop over the documents at a
\* time (xi is the document the loop is at); with no document it returns at once
ExtractInformation ==
    /\ pc = "extract"
    /\ trace' = IF xi = 1 THEN Append(trace, "extract") ELSE trace
    /\ IF retrieved_docs = <<>>
       THEN /\ extracted' = <<>>
            /\ path' = [path EXCEPT !["extract"] = "empty"]
            /\ pc' = StageAfter("extract")
            /\ UNCHANGED <<xi, findings, faults, calls, got, svcFailed, printed>>
       ELSE IF ExtractionPromptRaises(research_topic)
       THEN /\ extracted' = <<FallbackFinding(retrieved_docs, research_topic, clock)>>
            /\ path' = [path EXCEPT !["extract"] = "fallback"]
            /\ printed' = Append(printed, "Error extracting information")
            /\ pc' = StageAfter("extract")
            /\ UNCHANGED <<xi, findings, faults, calls, got, svcFailed>>
       ELSE \E outcome \in ExtractionOutcomes :
            LET turn == ExtractFromDocument(retrieved_docs[xi], research_topic, outcome)
            IN  /\ Drawn(outcome)
                /\ faults' = Spent(outcome)
                /\ calls' = [calls EXCEPT !["extract"] = @ + 1]
                /\ got' = [got EXCEPT !["extract"] = Extracted(outcome)]
                /\ svcFailed' = [svcFailed EXCEPT !["extract"] = (outcome.kind = "raise")]
                /\ findings' = StoreAll(findings, turn.made, 1)
                /\ IF turn.raises
                   THEN /\ extracted' = <<FallbackFinding(retrieved_docs, research_topic, clock)>>
                        /\ path' = [path EXCEPT !["extract"] = "fallback"]
                        /\ printed' = Append(printed, "Error extracting information")
                        /\ pc' = StageAfter("extract")
                        /\ xi' = xi
                   ELSE /\ extracted' = extracted \o turn.made
                        /\ printed' = printed
                        /\ IF LoopEnds(xi, retrieved_docs)
                           THEN /\ path' = [path EXCEPT !["extract"] = "normal"]
                                /\ pc' = StageAfter("extract")
                                /\ xi' = xi
                           ELSE /\ path' = path
                                /\ pc' = pc
                                /\ xi' = xi + 1
    /\ UNCHANGED <<query, time_limit, start_time, invocations, search_api_key, clock, research_topic, retrieved_docs, synthesis,
                   enhanced_synthesis, final_output, documents, research_plans, syntheses,
                   harness>>

\* step 4: _synthesize_findings
SynthesizeStep ==
    /\ pc = "synthesize"
    /\ IF extracted = <<>> \/ WithRegisteredSource(extracted, documents) = <<>>
          \/ ~Joinable(research_topic.subtopics)
       THEN /\ synthesis' = CreateDefaultSynthesis(research_topic, clock)
            /\ path' = [path EXCEPT !["synthesize"] =
                           SynthesizeFindings(extracted, research_topic, documents, Raise, "forward", clock).way]
            /\ printed' = IF ~Joinable(research_topic.subtopics)
                             /\ WithRegisteredSource(extracted, documents) # <<>>
                          THEN Append(printed, "Error synthesizing findings") ELSE printed
            /\ UNCHANGED <<syntheses, faults, calls, got, svcFailed>>
       ELSE \E outcome \in SynthesisOutcomes, order \in HashOrders :
            LET done == SynthesizeFindings(extracted, research_topic, documents, outcome, order, clock)
            IN  /\ Drawn(outcome)
                /\ faults' = Spent(outcome)
                /\ calls' = [calls EXCEPT !["synthesize"] = @ + 1]
                /\ got' = [got EXCEPT !["synthesize"] = Extracted(outcome)]
                /\ svcFailed' = [svcFailed EXCEPT !["synthesize"] = (outcome.kind = "raise")]
                /\ synthesis' = done.synthesis
                /\ syntheses' = IF done.stored
                                THEN DictPut(syntheses, done.synthesis.id, done.synthesis)
                                ELSE syntheses
                /\ path' = [path EXCEPT !["synthesize"] = done.way]
                /\ printed' = IF done.way = "fallback"
                              THEN Append(printed, "Error synthesizing findings") ELSE printed
    /\ trace' = Append(trace, "synthesize")
    /\ pc' = StageAfter("synthesize")
    /\ UNCHANGED <<query, time_limit, start_time, invocations, search_api_key, clock, research_topic, retrieved_docs, xi, extracted,
                   enhanced_synthesis, final_output, documents, findings, research_plans,
                   harness>>

\* step 5: _generate_insights
InsightsStep ==
    /\ pc = "insights"
    /\ \E outcome \in InsightsOutcomes :
        LET done == GenerateInsights(synthesis, outcome)
        IN  /\ Drawn(outcome)
            /\ faults' = Spent(outcome)
            /\ got' = [got EXCEPT !["insights"] = Extracted(outcome)]
            /\ svcFailed' = [svcFailed EXCEPT !["insights"] = (outcome.kind = "raise")]
            /\ enhanced_synthesis' = done.result
            /\ findings' = StoreAll(findings, done.registered, 1)
            /\ path' = [path EXCEPT !["insights"] = done.way]
            /\ printed' = IF done.way = "fallback"
                          THEN Append(printed, "Error generating insights") ELSE printed
    /\ calls' = [calls EXCEPT !["insights"] = @ + 1]
    /\ trace' = Append(trace, "insights")
    /\ pc' = StageAfter("insights")
    /\ UNCHANGED <<query, time_limit, start_time, invocations, search_api_key, clock, research_topic, retrieved_docs, xi, extracted,
                   synthesis, final_output, documents, research_plans, syntheses, harness>>

\* step 6: _format_research_output, and the return or the except branch of
\* conduct_research that follows it
FormatStep ==
    /\ pc = "format"
    /\ \E outcome \in FormatOutcomes :
        LET done == FormatResearchOutput(enhanced_synthesis, outcome, clock)
        IN  /\ Drawn(outcome)
            /\ faults' = Spent(outcome)
            /\ got' = [got EXCEPT !["format"] = Extracted(outcome)]
            /\ svcFailed' = [svcFailed EXCEPT !["format"] = (outcome.kind = "raise")]
            /\ final_output' = done.output
            /\ path' = [path EXCEPT !["format"] = done.way]
            /\ printed' = IF done.way = "normal" THEN printed
                          ELSE IF done.way = "fallback"
                          THEN Append(printed, "Error formatting research output")
                          ELSE printed \o <<"Error formatting research output",
                                            "Error during research">>
            /\ pc' = IF done.way = "raised" THEN "raised" ELSE StageAfter("format")
    /\ calls' = [calls EXCEPT !["format"] = @ + 1]
    /\ trace' = Append(trace, "format")
    /\ UNCHANGED <<query, time_limit, start_time, invocations, search_api_key, clock, research_topic, retrieved_docs, xi, extracted,
                   synthesis, enhanced_synthesis, documents, findings, research_plans,
                   syntheses, harness>>

---------------------------------------------------------------------------
(* The replies _extract_json is tried on *)

\* _extract_json is called on a reply at most this many times
MaxExtractions == 2

\* replies are concatenations of at most MaxPieces pieces
MaxPieces == 3

\* long replies have TruncLen - LenMargin .. TruncLen + LenMargin characters
LenMargin == 2

ObjA == Dict(<<"a">> :> Num(1))

PieceReplies ==
    LET Pieces ==
            { Fence, <<BackTick>>, JsonTag, <<"{">>, <<"}">>, <<"[", "1", "]">>,
              <<"1">>, <<"x">>, <<" ">>, <<"\n">>, <<"n", "u", "l", "l">>,
              <<Quote, "a", Quote, ":", "1">>, Encode(ObjA) }
        RECURSIVE Concat(_)
        Concat(ss) == IF ss = <<>> THEN <<>> ELSE Head(ss) \o Concat(Tail(ss))
    IN  {Concat(ps) : ps \in UNION {[1..n -> Pieces] : n \in 0..MaxPieces}}

\* long replies: a frame (what comes before and after) around a filling
LongReplies ==
    LET LongFrames ==
            { <<<<>>, <<>>>>, <<<<"{">>, <<"}">>>>, <<Fence, Fence>>,
              <<<<"{", Quote, "a", Quote, ":", Quote>>, <<Quote, "}">>>> }
    IN  { fr[1] \o [i \in 1..(n - Len(fr[1]) - Len(fr[2])) |-> c] \o fr[2] :
            fr \in LongFrames, c \in {"x", " "},
            n \in (TruncLen - LenMargin)..(TruncLen + LenMargin) }

\* the objects whose encodings are sent in a fenced block
Objects ==
    { Dict(<<>>),
      ObjA,
      Dict(<<"a">> :> Str(<<"x", "}", "{">>)),
      Dict(<<"a">> :> Str(<<"{">>)),
      Dict(<<"a">> :> Str(<<BackTick>>)),
      Dict(<<"a">> :> Str(Fence)),
      Dict(<<"a">> :> Str(<<"x", " ">> \o Fence \o <<"{", "}">>)),
      Dict(<<"a">> :> List(<<Num(12), Null>>) @@ <<"b">> :> Dict(<<"a">> :> Bool(TRUE))) }

\* pre ``` tag ws body ws ``` post
BlockReply(pre, tag, ws, body, post) ==
    pre \o Fence \o tag \o ws \o body \o ws \o Fence \o post

\* the fenced replies: prose without a grave accent before the block, the
\* encoding of an object or something that is none inside it, anything after it
BlockOrigins ==
    LET Proses == { <<>>, <<"x", ":", "\n">>, <<"{", "x", "}", " ">> }
        OtherBodies ==
            { <<"[", "1", "]">>, <<"1", "0">>, <<"n", "u", "l", "l">>, <<Quote, "x", Quote>>,
              <<"x">>, <<"{", Quote, "a", Quote, ":">> }
        Posts == { <<>>, <<" ", "x">>, <<" ">> \o Encode(ObjA),
                   <<"\n">> \o Fence \o <<"[", "1", "]">> \o Fence }
    IN  [kind : {"block"}, pre : Proses, tag : {<<>>, JsonTag}, ws : {<<>>, <<"\n">>},
         body : {Encode(o) : o \in Objects} \cup OtherBodies, post : Posts]

NotCalled == [raised |-> FALSE, value |-> Null, tier |-> "none", fallback |-> FALSE]

ExtractInit ==
    /\ Constructed
    /\ search_api_key = Null
    /\ faults = 0
    /\ result = NotCalled
    /\ extractions = 0
    /\ \/ /\ text \in PieceReplies
          /\ origin = [kind |-> "pieces"]
       \/ /\ text \in LongReplies
          /\ origin = [kind |-> "long"]
       \/ /\ origin \in BlockOrigins
          /\ text = BlockReply(origin.pre, origin.tag, origin.ws, origin.body, origin.post)
       \/ \* no block: one object, or two with something between them, in
          \* text without braces
          LET Values == Objects \cup { Dict(<<"a">> :> Str(Fence \o <<"x">> \o Fence)),
                                       Dict(<<"a">> :> Str(Fence \o <<"1">> \o Fence)) }
              Befores == { <<>>, <<"x", ":", "\n">>, <<"[">>, <<Quote>> }
              Betweens == { <<" ">>, <<",">>, <<"\n", "x", " ">> }
              Afters == { <<>>, <<" ", "x">>, <<"]">>, <<Quote>> }
          IN  /\ origin \in [kind : {"prose"}, pre : Befores, first : Values, sep : {<<>>},
                              second : {Null}, post : Afters]
                             \cup [kind : {"prose"}, pre : Befores, first : Values,
                                   sep : Betweens, second : Values, post : Afters]
              /\ text = origin.pre \o Encode(origin.first) \o origin.sep
                            \o (IF origin.second = Null THEN <<>> ELSE Encode(origin.second))
                            \o origin.post

\* a caller hands the reply to _extract_json
CallExtractJson ==
    /\ extractions < MaxExtractions
    /\ result' = ExtractJson(text)
    /\ extractions' = extractions + 1
    /\ UNCHANGED <<text, origin, pipeline>>

vars == <<harness, pipeline>>

ExtractSpec == ExtractInit /\ [][CallExtractJson]_vars

\* a fresh agent, not yet invoked, with a search key of keys, and a service
\* that has budget faulty outcomes left
Agent(keys, budget) ==
    /\ Constructed
    /\ search_api_key \in keys
    /\ faults = MaxFaults - budget
    /\ text = <<>>
    /\ origin = [kind |-> "none"]
    /\ result = NotCalled
    /\ extractions = 0

\* a fresh agent, with or without a search key
Init == Agent({Null, Str(<<"key">>)}, MaxFaults)

Next ==
    \/ Invoke
    \/ CreateResearchPlan
    \/ RetrieveDocuments
    \/ ExtractInformation
    \/ SynthesizeStep
    \/ InsightsStep
    \/ FormatStep

\* one invocation of conduct_research on a fresh agent
Spec == Init /\ [][Next]_vars

\* one invocation with any time_limit on an agent without a search key, while
\* the clock goes on; the service fails at most once
TimedSpec ==
    Agent({Null}, 1)
        /\ [][\/ InvokeWith(TimeLimits)
               \/ Tick(StageSet)
               \/ CreateResearchPlan
               \/ RetrieveDocuments
               \/ ExtractInformation
               \/ SynthesizeStep
               \/ InsightsStep
               \/ FormatStep]_vars

\* invocations one after the other on the same agent, the clock going on
\* between them; the service answers every call
RerunSpec ==
    Agent({Null, Str(<<"key">>)}, 0)
        /\ [][\/ Invoke
               \/ ReturnToCaller
               \/ Tick({"returned", "raised"})
               \/ CreateResearchPlan
               \/ RetrieveDocuments
               \/ ExtractInformation
               \/ SynthesizeStep
               \/ InsightsStep
               \/ FormatStep]_vars

\* main: one invocation on an agent without a search key, then the printing
\* and the saving of the report
MainSpec == Agent({Null}, MaxFaults) /\ [][Next \/ MainEnds]_vars

\* the findings handed to _synthesize_findings are at most this many
MaxFindings == 2

\* _synthesize_findings is about to be called by an invocation whose plan fell
\* back, with any list of findings, whose sources are none, registered
\* documents, a document that is not registered, or several of these, and
\* with none, one or two documents registered
SynthesizeInit ==
    LET q == <<"x", " ", "a", "n", "d", " ", "y">>
        topic == FallbackTopic(q, 1)
        doc(j) == MockDocument(topic, 1, 0, j)
        stranger == MockDocId(1, 9, 9)
        Sources == { <<>>, <<doc(0).id>>, <<stranger>>, <<stranger, doc(0).id>>,
                     <<doc(0).id, doc(0).id>>, <<doc(1).id, doc(0).id>> }
        Given == { ResearchFinding(FindingId(doc(0), 0), One("x"), src, Num(1), <<Str(q)>>) :
                     src \in Sources }
    IN  /\ pc = "synthesize"
        /\ query = q
        /\ time_limit = Null
        /\ start_time = 1
        /\ invocations = 1
        /\ search_api_key = Null
        /\ clock = 1
        /\ research_topic = topic
        /\ retrieved_docs \in { <<>>, <<doc(0)>>, <<doc(0), doc(1)>> }
        /\ documents = StoreAll(<<>>, retrieved_docs, 1)
        /\ xi = 1
        /\ extracted \in UNION { [1..n -> Given] : n \in 0..MaxFindings }
        /\ findings = <<>>
        /\ synthesis = Null
        /\ enhanced_synthesis = Null
        /\ final_output = Null
        /\ research_plans = <<>>
        /\ syntheses = <<>>
        /\ faults = 0
        /\ trace = <<"plan", "retrieve", "extract">>
        /\ calls = [s \in StageSet |-> IF s = "plan" THEN 1 ELSE 0]
        /\ path = [s \in StageSet |->
                     IF s \in {"synthesize", "insights", "format"} THEN "pending"
                     ELSE IF s = "plan" THEN "fallback" ELSE "normal"]
        /\ got = [s \in StageSet |-> NoReply]
        /\ svcFailed = [s \in StageSet |-> s = "plan"]
        /\ printed = <<"Error creating research plan">>
        /\ text = <<>>
        /\ origin = [kind |-> "none"]
        /\ result = NotCalled
        /\ extractions = 0

\* one call of _synthesize_findings
SynthesizeSpec == SynthesizeInit /\ [][SynthesizeStep]_vars

---------------------------------------------------------------------------
(* Properties of _extract_json (checked under ExtractSpec) *)

Called == result.tier # "none"

\* two ``` markers that do not overlap
HasFencedBlock(s) ==
    \E i, j \in FencePositions(s) : j >= i + 3

\* a { with a } somewhere after it
HasBraces(s) ==
    \E i, j \in 1..Len(s) : i < j /\ s[i] = "{" /\ s[j] = "}"

IsFallbackRecordOf(x, s) ==
    /\ x.t = "dict"
    /\ DOMAIN x.d = {Key.error, Key.raw_text}
    /\ x.d[Key.error] = Str(<<"Failed to parse JSON">>)
    /\ x.d[Key.raw_text].t = "str"
    /\ LET raw == x.d[Key.raw_text].s
           n   == IF Len(s) < TruncLen THEN Len(s) ELSE TruncLen
       IN  /\ Len(raw) >= n
           /\ SubSeq(raw, 1, n) = SubSeq(s, 1, n)
           /\ Len(s) <= TruncLen => raw = s

\* C1: whatever the reply (malformed, empty, prose, invalid JSON in a fence
\* or in braces), _extract_json returns a value; no exception leaves it.
C1_ExtractNeverRaises == Called => ~result.raised

\* invalid JSON inside a fenced block was handed in and a value came back
C1_Witness ==
    /\ Called
    /\ origin.kind = "block"
    /\ origin.body = <<"{", Quote, "a", Quote, ":">>
    /\ result.fallback
    /\ ~result.raised

\* C2 (as claimed): the value returned by _extract_json is always a mapping,
\* also when the fenced block or the whole reply is JSON of another kind.
C2_ExtractReturnsMapping == Called => result.value.t = "dict"

\* C6: a reply with no fenced block, no {...} and that is not JSON itself
\* (the empty and the whitespace-only reply among them) yields exactly the
\* two-key fallback record made from that reply.
C6_NoJsonGivesFallback ==
    (Called /\ ~HasFencedBlock(text) /\ ~HasBraces(text) /\ JsonLoads(text).exc)
        => IsFallbackRecordOf(result.value, text)

\* a whitespace-only reply got the fallback record
C6_Witness ==
    /\ Called
    /\ Len(text) > 0
    /\ \A i \in 1..Len(text) : text[i] \in ReSpace
    /\ IsFallbackRecordOf(result.value, text)

\* C7: in every fallback record raw_text is the whole reply when it has at
\* most 500 characters and its first 500 characters followed by "..."
\* otherwise; raw_text never has more than 503 characters.
C7_RawTextTruncated ==
    (Called /\ result.fallback) =>
        LET raw == result.value.d[Key.raw_text].s
        IN  /\ Len(text) <= TruncLen => raw = text
            /\ Len(text) > TruncLen => raw = SubSeq(text, 1, TruncLen) \o <<".", ".", ".">>
            /\ Len(raw) <= TruncLen + 3

\* a reply of exactly 500 characters fell back and kept its text, no ellipsis
C7_Witness ==
    /\ Called
    /\ result.fallback
    /\ Len(text) = TruncLen
    /\ result.value.d[Key.raw_text].s = text

OnePlainBlock ==
    /\ origin.kind = "block"
    /\ origin.post \in {<<>>, <<" ", "x">>}

\* C8 (as claimed): for every object, prose plus one fenced block holding the
\* object's encoding is extracted to exactly that object, also when its
\* string values contain braces or the fence marker.
C8_FencedEncodingRoundTrip ==
    (Called /\ OnePlainBlock) =>
        \A o \in Objects : origin.body = Encode(o) =>
            (~result.fallback /\ result.value = o)

\* C9: the attempts are ordered.  A reply with a fenced block is decided by
\* its first fenced block alone, whatever braces or blocks stand before or
\* after it; the brace scan runs only without a fenced block, the parse of
\* the whole reply only without both.
C9_TiersOrdered ==
    Called =>
        /\ result.tier = "fence" <=> HasFencedBlock(text)
        /\ result.tier = "brace" <=> (~HasFencedBlock(text) /\ HasBraces(text))
        /\ result.tier = "whole" <=> (~HasFencedBlock(text) /\ ~HasBraces(text))
        /\ (origin.kind = "block" /\ FencePositions(origin.body) = {}) =>
              LET alone == JsonLoads(origin.body)
              IN  /\ result.fallback = alone.exc
                  /\ ~alone.exc => result.value = alone.val

\* braces before the block, a second block after it: the first block decided
C9_Witness ==
    /\ Called
    /\ origin.kind = "block"
    /\ origin.pre = <<"{", "x", "}", " ">>
    /\ origin.post = <<"\n">> \o Fence \o <<"[", "1", "]">> \o Fence
    /\ origin.body = Encode(ObjA)
    /\ result.value = ObjA

BraceSpan(s) ==
    LET opens == {i \in 1..Len(s) : s[i] = "{"}
        closes == {j \in 1..Len(s) : s[j] = "}"}
    IN  SubSeq(s, Min(opens), Max(closes))

\* C19: without a fenced block, a reply with a { and a } after it is decided
\* by the text from its first { to its last }: the result is what json.loads
\* makes of that text, or the fallback record when it raises.  Hence two
\* objects with something between them give the fallback record and not the
\* first object, and one object (braces nested or inside its strings) in
\* text without braces gives that object.
C19_BraceScanFirstToLast ==
    (Called /\ ~HasFencedBlock(text) /\ HasBraces(text)) =>
        /\ result.tier = "brace"
        /\ LET span == JsonLoads(BraceSpan(text))
           IN  IF span.exc
               THEN result.fallback /\ IsFallbackRecordOf(result.value, text)
               ELSE ~result.fallback /\ result.value = span.val
        /\ origin.kind = "prose" =>
              IF origin.second = Null
              THEN ~result.fallback /\ result.value = origin.first
              ELSE result.fallback /\ result.value # origin.first

\* two objects with a comma between them, in brackets: the fallback record
C19_Witness ==
    /\ Called
    /\ origin.kind = "prose"
    /\ origin.pre = <<"[">> /\ origin.post = <<"]">> /\ origin.sep = <<",">>
    /\ origin.first = ObjA /\ origin.second = ObjA
    /\ result.tier = "brace"
    /\ IsFallbackRecordOf(result.value, text)

\* C20: an attempt is chosen by its pattern matching, not by its parse
\* succeeding.  When a fenced block is found and its content is not valid
\* JSON, the result is the fallback record; when none is found and the text
\* from the first { to the last } is not valid JSON, likewise; and this is
\* so also when a later attempt, the brace scan or the parse of the whole
\* reply, would have given a value.
C20_TierChosenByMatch ==
    Called =>
        /\ (HasFencedBlock(text) /\ JsonLoads(FenceSearch(text).group).exc) =>
              result.fallback /\ IsFallbackRecordOf(result.value, text)
        /\ (~HasFencedBlock(text) /\ HasBraces(text) /\ JsonLoads(BraceSpan(text)).exc) =>
              result.fallback /\ IsFallbackRecordOf(result.value, text)
        /\ result.fallback => result.value # JsonLoads(text).val
        /\ result.tier = "whole" => result.fallback = JsonLoads(text).exc

\* a reply that is valid JSON as a whole, with a fenced block inside its
\* string value whose content is not JSON: the fallback record
C20_Witness ==
    /\ Called
    /\ origin.kind = "prose"
    /\ HasFencedBlock(text)
    /\ ~JsonLoads(text).exc
    /\ ~JsonLoads(BraceSpan(text)).exc
    /\ result.tier = "fence"
    /\ result.fallback

---------------------------------------------------------------------------
(* Properties of conduct_research *)

\* the steps that call the service
CallingStages == {"plan", "extract", "synthesize", "insights", "format"}

\* the place of a step in the fixed order
StageIndex(s) == CHOOSE i \in 1..Len(Stages) : Stages[i] = s

\* the step has ended, with a value or with an exception
Ended(s) == path[s] # "pending"

\* the step returned the object its except branch builds
ReturnedFallbackObject(s) ==
    CASE s = "plan"       -> research_topic = FallbackTopic(query, clock)
      [] s = "extract"    -> extracted = <<FallbackFinding(retrieved_docs, research_topic, clock)>>
      [] s = "synthesize" -> synthesis = CreateDefaultSynthesis(research_topic, clock)
      [] s = "insights"   -> enhanced_synthesis = synthesis
      [] s = "format"     -> path[s] = "fallback" /\ final_output = BasicReport(enhanced_synthesis, clock)

\* C3 (as claimed): when the service call of a model-calling step raises, the
\* step catches it at its own boundary and returns its fallback object (the
\* fallback topic, the single fallback finding, the default synthesis, the
\* unchanged input synthesis, the basic report), and conduct_research goes on
\* to its return: no exception leaves it.
C3_ServiceFailureFallsBack ==
    \A s \in CallingStages :
        (svcFailed[s] /\ Ended(s)) =>
            /\ path[s] = "fallback"
            /\ ReturnedFallbackObject(s)
            /\ pc # "raised"

\* C4 (as claimed): for every query, every pattern of service failures and
\* every reply, ill-typed fields included, each of the six steps returns a
\* value; no exception leaves a step or a step's own except branch.
C4_NoStageAborts ==
    /\ \A s \in StageSet : path[s] # "raised"
    /\ pc # "raised"

\* the reply handed to the step has no entry for the key
Lacks(v, k) == ~IsDict(v) \/ k \notin DOMAIN v.d

\* the document the loop of _extract_information last worked on
LastDocument == retrieved_docs[IF pc = "extract" THEN xi - 1 ELSE xi]

\* the finding made from element i of key_findings of the last document has this content
LastFindingHas(i, field, x) ==
    \E n \in 1..Len(extracted) :
        /\ extracted[n].id = FindingId(LastDocument, i)
        /\ extracted[n][field] = x

PlanDefaulted ==
    LET v == got["plan"]
        parts == SplitOn(query, <<" ", "a", "n", "d", " ">>)
    IN  /\ Lacks(v, Key.main_query) => research_topic.query = Str(query)
        /\ Lacks(v, Key.subtopics) =>
              research_topic.subtopics = StrList(<<parts[1], parts[Len(parts)]>>)
        /\ Lacks(v, Key.keywords) => research_topic.keywords = StrList(SplitWs(query))
        /\ Lacks(v, Key.scope) => research_topic.scope = DefaultScope

ExtractionDefaulted ==
    LET v == got["extract"]
    IN  /\ Lacks(v, Key.key_findings) =>
              /\ LastFindingHas(0, "content", DefaultKeyFindings(research_topic).l[1].d[Key.finding])
              /\ LastFindingHas(0, "confidence", DefaultConfidence)
        /\ (~Lacks(v, Key.key_findings) /\ v.d[Key.key_findings].t = "list") =>
              \A i \in 1..Len(v.d[Key.key_findings].l) :
                  LET item == v.d[Key.key_findings].l[i]
                  IN  /\ Lacks(item, Key.finding) => LastFindingHas(i - 1, "content", DefaultFindingContent)
                      /\ Lacks(item, Key.confidence) => LastFindingHas(i - 1, "confidence", DefaultConfidence)

SynthesisDefaulted ==
    LET v == got["synthesize"]
        ids == synthesis.document_coverage
        made == SynthesisFindings(Items(DefaultSynthesisBySubtopic(research_topic)), 1, ids)
    IN  /\ Lacks(v, Key.title) => synthesis.title = DefaultTitle(research_topic)
        /\ Lacks(v, Key.executive_summary) => synthesis.summary = DefaultSummary(research_topic)
        /\ Lacks(v, Key.synthesis_by_subtopic) =>
              synthesis.key_findings =
                  IF made = <<>> THEN <<DefaultSynFinding(research_topic, ids)>> ELSE made
        /\ Lacks(v, Key.research_gaps) => synthesis.gaps_identified = DefaultGaps(research_topic)
        /\ Lacks(v, Key.future_directions) => synthesis.future_directions = DefaultFutureDirections

\* no finding of the synthesis has an identifier that starts like this one
NoFindingFrom(syn, idOfZero) ==
    \A n \in 1..Len(syn.key_findings) : syn.key_findings[n].id[1] # idOfZero[1]

InsightsDefaulted ==
    LET v == got["insights"]
    IN  /\ Lacks(v, Key.enhanced_future_directions) =>
              enhanced_synthesis.future_directions = synthesis.future_directions
        /\ Lacks(v, Key.deeper_patterns) => NoFindingFrom(enhanced_synthesis, PatternFindingId(0))
        /\ Lacks(v, Key.practical_applications) =>
              NoFindingFrom(enhanced_synthesis, ApplicationFindingId(0))

\* the ten fields of the report that come from the reply
ReportFields ==
    {Key.title, Key.executive_summary, Key.introduction, Key.methodology, Key.key_findings, Key.discussion,
     Key.research_gaps, Key.future_directions, Key.conclusion, Key.bibliography}

FormatDefaulted ==
    \A k \in ReportFields :
        Lacks(got["format"], k) =>
            final_output.d[k] = FinalOutput(Dict(<<>>), enhanced_synthesis, clock).d[k]

\* C5 (as claimed): when the reply a step gets lacks a key the step expects
\* (as the fallback record with only error and raw_text does), the step ends
\* on its normal path, without raising, and its output carries the step's
\* default for that key, field by field.
C5_MissingKeyGetsDefault ==
    /\ (got["plan"] # NoReply /\ Ended("plan")) =>
          (path["plan"] = "normal" /\ PlanDefaulted)
    /\ (got["extract"] # NoReply /\ calls["extract"] > 0) =>
          (path["extract"] \in {"normal", "pending"} /\ ExtractionDefaulted)
    /\ (got["synthesize"] # NoReply /\ Ended("synthesize")) =>
          (path["synthesize"] = "normal" /\ SynthesisDefaulted)
    /\ (got["insights"] # NoReply /\ Ended("insights")) =>
          (path["insights"] = "normal" /\ InsightsDefaulted)
    /\ (got["format"] # NoReply /\ Ended("format")) =>
          (path["format"] = "normal" /\ FormatDefaulted)

\* C10: the six steps run in the fixed order plan, retrieve, extract,
\* synthesize, insights, format: the steps started are always a prefix of
\* that order (none twice, none skipped), a step starts only when the one
\* before it has ended, and at the return all six have run, also when an
\* earlier step fell back to its default.
C10_StepsInFixedOrder ==
    /\ \E n \in 0..Len(Stages) : trace = SubSeq(Stages, 1, n)
    /\ \A i \in 1..Len(trace) : i > 1 => Ended(Stages[i - 1])
    /\ \A s \in StageSet : Ended(s) => \E i \in 1..Len(trace) : trace[i] = s
    /\ pc \in StageSet =>
          \/ trace = SubSeq(Stages, 1, StageIndex(pc) - 1)
          \/ pc = "extract" /\ xi > 1 /\ trace = SubSeq(Stages, 1, StageIndex(pc))
    /\ pc \in {"returned", "raised"} => trace = Stages
    /\ pc = "idle" => trace = <<>>

\* conduct_research returned after all six steps although the plan and the
\* synthesis steps fell back
C10_Witness ==
    /\ pc = "returned"
    /\ trace = Stages
    /\ path["plan"] = "fallback"
    /\ path["synthesize"] = "fallback"
    /\ \A s \in CallingStages : calls[s] > 0

SynthesisHasInput ==
    /\ extracted # <<>>
    /\ WithRegisteredSource(extracted, documents) # <<>>
    /\ Joinable(research_topic.subtopics)

Distinct(xs) == Cardinality({xs[i] : i \in 1..Len(xs)})

\* metadata.document_count of the report
DocumentCount == final_output.d[Key.metadata].d[Key.document_count]

\* the registered documents that the findings given to the synthesis step refer to
ReferencedDocuments ==
    {id \in DOMAIN documents :
        \E i \in 1..Len(extracted) : \E k \in 1..Len(extracted[i].source_documents) :
            extracted[i].source_documents[k] = id}

\* C12 (as claimed): in every report returned by conduct_research, on the
\* normal and the fallback formatting path, with the normal and the default
\* synthesis, metadata.document_count is the number of distinct identifiers
\* in the synthesis's document_coverage, that is, the number of distinct
\* registered documents the findings given to the synthesis step refer to.
C12_DocumentCountAsClaimed ==
    pc = "returned" =>
        /\ DocumentCount = Num(Distinct(enhanced_synthesis.document_coverage))
        /\ DocumentCount = Num(Cardinality(ReferencedDocuments))

\* C12 (amended): in every report returned by conduct_research, on both
\* formatting paths, metadata.document_count is the number of distinct
\* identifiers in the synthesis's document_coverage.  When the synthesis step
\* ended on its normal path these are the distinct registered documents its
\* findings refer to; the default synthesis covers no document, so the count
\* is 0 then, whatever the findings refer to.
C12_DocumentCount ==
    pc = "returned" =>
        /\ DocumentCount = Num(Distinct(enhanced_synthesis.document_coverage))
        /\ path["synthesize"] = "normal" =>
              DocumentCount = Num(Cardinality(ReferencedDocuments))
        /\ path["synthesize"] # "normal" => DocumentCount = Num(0)

\* a report of the fallback formatting path over a normal synthesis whose
\* findings refer to fewer documents than there are references
C12_Witness ==
    /\ pc = "returned"
    /\ path["format"] = "fallback"
    /\ path["synthesize"] = "normal"
    /\ DocumentCount = Num(Cardinality(ReferencedDocuments))
    /\ Cardinality(ReferencedDocuments) > 1
    /\ Len(extracted) > Cardinality(ReferencedDocuments)

\* C13 (as claimed): for every query run on a fresh agent and every sequence
\* of replies, the report conduct_research returns has a title that is a
\* non-empty string and a bibliography that is a list, possibly empty.
C13_TitleAndBibliography ==
    pc = "returned" =>
        /\ IsStr(final_output.d[Key.title]) /\ final_output.d[Key.title].s # <<>>
        /\ final_output.d[Key.bibliography].t = "list"

\* every key of the registry is still there after the step, with its value
Kept(reg, after) == \A k \in DOMAIN reg : k \in DOMAIN after /\ after[k] = reg[k]

\* the items of the list have pairwise different identifiers
DistinctIds(xs) == \A i, j \in 1..Len(xs) : i # j => xs[i].id # xs[j].id

\* C14 (as claimed): the four registries are append-only.  No step removes a
\* key or changes the value a key has; and no store overwrites an existing
\* key, since identifiers never collide: the documents retrieved have
\* pairwise different identifiers and each is registered as it was stored,
\* on the mock-retrieval path and on the search path, and so are the
\* findings the extraction step made.
C14_RegistriesAppendOnly ==
    [][/\ Kept(documents, documents') /\ Kept(findings, findings')
       /\ Kept(research_plans, research_plans') /\ Kept(syntheses, syntheses')
       /\ DistinctIds(retrieved_docs')
       /\ \A i \in 1..Len(retrieved_docs') :
             documents'[retrieved_docs'[i].id] = retrieved_docs'[i]
       /\ path'["extract"] \in {"pending", "normal"} =>
             /\ DistinctIds(extracted')
             /\ \A n \in 1..Len(extracted') : findings'[extracted'[n].id] = extracted'[n]
      ]_vars

---------------------------------------------------------------------------
(* Properties of the time budget (checked under TimedSpec) *)

---------------------------------------------------------------------------
(* Properties of main (checked under MainSpec) *)

\* an exception left a step of conduct_research
StepRaised == \E s \in StageSet : path[s] = "raised"

\* C18: when an exception escapes a step inside conduct_research, the last
\* thing conduct_research does before the exception reaches its caller is to
\* print "Error during research"; it returns no report; and main then prints
\* "Error in main function" and ends without having written the file.  The
\* file is written only after conduct_research returned a report.
C18_EscapedExceptionReported ==
    /\ StepRaised => pc \in {"raised", "failed"} /\ final_output = Null
    /\ pc = "raised" =>
          /\ StepRaised
          /\ printed # <<>> /\ printed[Len(printed)] = "Error during research"
    /\ pc = "failed" /\ StepRaised =>
          /\ Len(printed) >= 2
          /\ printed[Len(printed) - 1] = "Error during research"
          /\ printed[Len(printed)] = "Error in main function"
          /\ \A i \in 1..Len(printed) : printed[i] # "Full research report saved"
    /\ pc = "saved" => ~StepRaised /\ final_output # Null

\* main has ended after the formatting step's except branch raised
C18_Witness ==
    /\ pc = "failed"
    /\ path["format"] = "raised"
    /\ trace = Stages
    /\ printed[Len(printed)] = "Error in main function"

---------------------------------------------------------------------------
(* Properties of an agent invoked more than once (checked under RerunSpec) *)

\* C15 (as claimed): the registries live only for one invocation.  Whenever
\* conduct_research has just been invoked, for the first time or again on
\* the same agent, it starts with no document, no finding, no plan and no
\* synthesis left over in the registries.
C15_RegistriesStartEmpty ==
    pc = "plan" =>
        /\ documents = <<>>
        /\ findings = <<>>
        /\ research_plans = <<>>
        /\ syntheses = <<>>

---------------------------------------------------------------------------
(* Properties of the single steps *)

\* the extraction step ends in this step, on the given path
ExtractionEnds(way) == pc = "extract" /\ path'["extract"] = way

\* C21 (as claimed): when the service call or the handling of a reply fails
\* on a document, whichever it is, _extract_information returns exactly one
\* fallback finding, with confidence 0.5 and the first document as its only
\* source, and each finding extracted from the documents before is still
\* in the findings registry under its identifier, though not in the list
\* returned.  Without a failure the list returned has at least one finding
\* for each document, and the only source of each finding is the document
\* it was extracted from.
C21_ExtractionFallback ==
    [][/\ ExtractionEnds("fallback") =>
             /\ Len(extracted') = 1
             /\ extracted'[1].confidence = Float("0.5")
             /\ extracted'[1].source_documents = <<retrieved_docs[1].id>>
             /\ \A n \in 1..Len(extracted) :
                   /\ extracted[n] # extracted'[1]
                   /\ extracted[n].id \in DOMAIN findings'
                   /\ findings'[extracted[n].id] = extracted[n]
       /\ ExtractionEnds("normal") =>
             /\ Len(extracted') >= Len(retrieved_docs)
             /\ \A d \in 1..Len(retrieved_docs) :
                   \E n \in 1..Len(extracted') :
                       extracted'[n].source_documents = <<retrieved_docs[d].id>>
             /\ \A n \in 1..Len(extracted') :
                   \E d \in 1..Len(retrieved_docs) :
                       /\ extracted'[n].source_documents = <<retrieved_docs[d].id>>
                       /\ \E i \in 0..Len(extracted') :
                             extracted'[n].id = FindingId(retrieved_docs[d], i)
      ]_vars

\* no given finding names a registered document among its sources
NoneRegistered ==
    \A i \in 1..Len(extracted) : \A k \in 1..Len(extracted[i].source_documents) :
        extracted[i].source_documents[k] \notin DOMAIN documents

\* C22: every synthesis _synthesize_findings returns has a document_coverage
\* without duplicates, each identifier of it a key of the documents
\* registry, one bibliography entry for each covered identifier (its
\* citation, in the same order), and at least one key finding.  When no
\* given finding names a registered document, and so when no finding is
\* given, the result is the default synthesis, with empty document_coverage
\* and bibliography, and the service is not called.
C22_SynthesisShape ==
    Ended("synthesize") =>
        LET covered == synthesis.document_coverage
        IN  /\ \A i, j \in 1..Len(covered) : i # j => covered[i] # covered[j]
            /\ \A i \in 1..Len(covered) : covered[i] \in DOMAIN documents
            /\ Len(synthesis.bibliography) = Len(covered)
            /\ \A i \in 1..Len(covered) :
                  synthesis.bibliography[i] = FormatCitation(documents[covered[i]])
            /\ synthesis.key_findings # <<>>
            /\ NoneRegistered =>
                  /\ synthesis = CreateDefaultSynthesis(research_topic, clock)
                  /\ covered = <<>> /\ synthesis.bibliography = <<>>
                  /\ calls["synthesize"] = 0
                  /\ syntheses = <<>>

\* two findings were given, none naming a registered document although a
\* document is registered: the default synthesis came back without a call
C22_Witness ==
    /\ Ended("synthesize")
    /\ Len(extracted) = 2
    /\ documents # <<>>
    /\ NoneRegistered
    /\ calls["synthesize"] = 0
    /\ synthesis.document_coverage = <<>>

\* the registered findings the loops of _generate_insights made
InsightFindings(registry) ==
    { registry[id] : id \in { k \in DOMAIN registry :
        \E i \in 0..Len(k) : k \in {PatternFindingId(i), ApplicationFindingId(i)} } }

\* C23 (as claimed): _generate_insights leaves the synthesis it is given
\* unchanged.  What it returns has the same id, title, summary,
\* document_coverage, gaps_identified and bibliography, and key_findings that
\* begin with the given ones, the pattern findings and then the application
\* findings appended.  On any failure it returns the given synthesis itself,
\* and then every pattern or application finding in the findings registry
\* is among the key findings of the synthesis returned.
C23_InsightsFrame ==
    [][pc = "insights" =>
        /\ synthesis' = synthesis
        /\ \A f \in {"id", "title", "summary", "document_coverage", "gaps_identified",
                      "bibliography"} : enhanced_synthesis'[f] = synthesis[f]
        /\ LET given == synthesis.key_findings
               made == enhanced_synthesis'.key_findings
           IN  /\ Len(made) >= Len(given)
               /\ SubSeq(made, 1, Len(given)) = given
               /\ path'["insights"] = "normal" =>
                     made = given \o PatternFindings(got'["insights"], synthesis)
                                 \o ApplicationFindings(got'["insights"], synthesis)
        /\ path'["insights"] = "fallback" =>
              /\ enhanced_synthesis' = synthesis
              /\ \A f \in InsightFindings(findings') :
                    \E n \in 1..Len(enhanced_synthesis'.key_findings) :
                        enhanced_synthesis'.key_findings[n] = f
      ]_vars

===========================================================================
